---- MODULE Spec2Model ----
(***************************************************************************)
(* Verification model of the resilient data-collection layer of            *)
(* ai_sentiney: src/collector/data_fetcher.py (DataCollector: the          *)
(* per-source circuit breaker, _run_blocking and _fetch_with_fallback).    *)
(*                                                                         *)
(* Concurrency model.  All coroutines of a DataCollector run on one        *)
(* asyncio event loop, so the code between two awaits is one atomic step.  *)
(* The only await of _fetch_with_fallback is the one on _run_blocking      *)
(* (line 148); the blocking source call and its tenacity retries run on a  *)
(* ThreadPoolExecutor worker thread (line 122) and touch no collector      *)
(* state.                                                                  *)
(***************************************************************************)
EXTENDS Integers, Sequences, FiniteSets, TLC

(***************************************************************************)
(* Bounds of the model.                                                    *)
(***************************************************************************)
NumTasks == 2          \* concurrent fetch paths (coroutines) of one collector
MaxInvocations == 4    \* invocations started by the single fetch path of Spec
ConcInvocations == 2   \* invocations started by the concurrent fetch paths
MaxTicks == 2          \* Spec: the clock stops after MaxTicks ticks
TickLen == 15          \* Spec: seconds the clock advances in one tick
ConcMaxTicks == 1      \* SpecConc: the clock stops after ConcMaxTicks ticks
ConcTickLen == 30      \* SpecConc: seconds the clock advances in one tick
ContentInvocations == 2 \* SpecContent: invocations started
LateInvocations == 2   \* SpecLate: invocations started
RunCalls == 2          \* SpecRun: calls of _run_blocking started
RunMaxTime == 12       \* SpecRun: the clock stops at RunMaxTime seconds
MaxPortfolio == 2      \* SpecCollect: instruments of the largest portfolio
MaxStocks == 2         \* SpecPipeline: stocks of the longest list

(***************************************************************************)
(* Program constants.                                                      *)
(***************************************************************************)
FAILURE_THRESHOLD == 3     \* CircuitBreakerState.FAILURE_THRESHOLD
RECOVERY_TIMEOUT == 30     \* CircuitBreakerState.RECOVERY_TIMEOUT (seconds)
MAX_ATTEMPTS == 3          \* stop_after_attempt(3)
DEFAULT_TIMEOUT == 5       \* kwargs.pop('timeout', 5) (seconds)
BACKOFF_MULTIPLIER == 1    \* wait_exponential(multiplier=1, ...
BACKOFF_MIN == 1           \*                  ... min=1, ...
BACKOFF_MAX == 10          \*                  ... max=10) (seconds)

\* generate_signals, default thresholds.  bias_pct is a ratio rounded to 4
\* places and is counted here in units of 0.0001; volume_ratio is rounded to
\* 2 places and counted in hundredths; pct_change is counted in tenths of a
\* percent.
BIAS_WATCH_THRESHOLD == -100       \* bias_thresholds 'watch', -0.01
BIAS_WARNING_THRESHOLD == -300     \* bias_thresholds 'warning', -0.03
BIAS_DANGER_THRESHOLD == -500      \* bias_thresholds 'danger', -0.05
BIAS_OVERBOUGHT_THRESHOLD == 500   \* bias_thresholds 'overbought', 0.05
VOLUME_RATIO_HIGH == 150           \* volume_ratio_high, 1.5
RSI_OVERSOLD == 30
RSI_OVERBOUGHT == 70
RSI_MIDDLE == 50                   \* "rsi < 50"
VOLUME_RATIO_EVEN == 100           \* "volume_ratio < 1.0"
LIMIT_ST == 45                     \* limit_threshold 4.5
LIMIT_GROWTH == 195                \* limit_threshold 19.5
LIMIT_MAIN == 95                   \* limit_threshold 9.5

\* self.sources: the priority list, Tencent -> Efinance -> AkShare
Sources == <<"Tencent", "Efinance", "AkShare">>
NumSources == Len(Sources)
SourceNames == {Sources[i] : i \in 1..NumSources}
Tasks == 1..NumTasks

\* What a source method can hand back when it does not raise.
\* "EmptyStr" stands for every empty value that is not a DataFrame ("" or []):
\* the validity test of lines 151-153 sends them down the same branch.
Kinds == {"None", "EmptyDF", "EmptyStr", "Data"}
\* What one blocking call can do: hand back a value or raise.
Outcomes == Kinds \cup {"Exception"}
\* One outcome for each branch of lines 151-162, for the concurrent paths.
ConcOutcomes == {"None", "Data", "Exception"}

\* The value _fetch_with_fallback has not returned yet / returns at line 165.
NoRet == [src |-> "-", kind |-> "Pending"]
RetNone == [src |-> "-", kind |-> "None"]

VARIABLES
    cb,           \* self._circuit_breakers: source name -> CircuitBreakerState
    now,          \* time.time(), in seconds
    pc,           \* per task: "idle", "await", "done", "raised"
    idx,          \* per task: position of the for loop in self.sources
    fut,          \* per task: the executor future awaited: "none", "running",
                  \*           or the outcome the worker thread ended with
    started,      \* per task: time at which wait_for started its window
    att,          \* per task: calls of the source method made so far by the
                  \*           worker thread of the awaited future
    ret,          \* per task: value returned by the invocation
    invocations,  \* number of invocations started
    calls,        \* history: per task, the sources the loop has visited, in
                  \*          order, each with what became of it: "skipped",
                  \*          "pending" (call in flight), "failed" (exception
                  \*          or timeout), "invalid" (None, empty DataFrame)
                  \*          or "valid"
    admit,        \* history: per task, breaker class seen by the skip-check
                  \*          that let the last call through
    snap,         \* history: per task, failure_count of the source when the
                  \*          last call was submitted
    pre,          \* history: per task, about its last breaker write: the
                  \*          breaker class just before it, and whether some
                  \*          other write had changed the count since the
                  \*          call was submitted
    consec,       \* history: per source, failures recorded since the last
                  \*          recorded success (or since construction)
    can,          \* environment: per source, what a call of the fetched
                  \*          method can do (a subset of Outcomes)
    phase,        \* SpecRun, per task: what the worker thread is doing:
                  \*          "queued", "calling", "sleeping" or "-"
    since,        \* SpecRun, per task: time at which that phase began
    late          \* per task and source: "running" while a worker thread
                  \*          that wait_for gave up is still in its call,
                  \*          "ended" once it has come to its end, else "-"

\* collect_all (SpecCollect)
VARIABLES
    portfolio,    \* number of entries of the portfolio handed to collect_all
    cpc,          \* where collect_all is: "idle", "bulk" (awaiting the bulk
                  \*   spot fetch), "globals" (awaiting the first gather),
                  \*   "stocks" (awaiting the second gather), "returned"
    bulk,         \* per portfolio entry: what df_all_spot holds for its code
    gl,           \* per global branch: "created" (a coroutine object that
                  \*   nothing runs yet), "running", "value" or "raised"
    st,           \* per portfolio entry: the branch of the instrument: where
                  \*   it is, and whether it has called fetch_single_quote
    out,          \* what collect_all returned
    bulkCalls     \* history: calls of _fetch_with_fallback('fetch_spot_data')

collectv == <<portfolio, cpc, bulk, gl, st, out, bulkCalls>>

\* The state of the fetch paths.
collector0 == <<cb, now, pc, idx, fut, started, att, ret, invocations,
                calls, admit, snap, pre, consec, can, phase, since, late>>

\* DataProcessor (SpecSignals, SpecPipeline)
VARIABLES
    spc,          \* where the processing of a cycle is: "raw" (stocks
                  \*   collected), "processed" (indicators calculated),
                  \*   "done" (generate_signals has returned), "raised"
    raws,         \* the stocks as collected (stock_data_list)
    processed,    \* the list handed to generate_signals (processed_stocks)
    holdings,     \* the holdings argument: code -> day of purchase
    rules,        \* risk_params['signal_rules']
    results       \* the list generate_signals returned

signalv == <<spc, raws, processed, holdings, rules, results>>

\* signal_tracker and the stitching of calculate_indicators (SpecEvaluate,
\* SpecRolling, SpecStitch)
VARIABLES
    ev,           \* evaluate_signal: its two arguments and what it returned
    roll,         \* calculate_rolling_stats: the records handed to it, the
                  \*   pairs of dates it evaluated, the evaluations and the
                  \*   dictionary it returned
    calc          \* calculate_indicators: the history and the live values
                  \*   handed to it, the series it fed to the indicators and
                  \*   the ma20 and bias_pct it returned

analysisv == <<ev, roll, calc>>

vars == <<cb, now, pc, idx, fut, started, att, ret, invocations,
          calls, admit, snap, pre, consec, can, phase, since, late,
          collectv, signalv, analysisv>>

\* What the steps of _fetch_with_fallback never change.
fixed0 == <<can, phase, since, collectv, signalv, analysisv>>
fixed == <<fixed0, late>>

hist == <<calls, admit, snap, pre, consec>>

(***************************************************************************)
(* CircuitBreakerState and the three breaker operations.                   *)
(***************************************************************************)
\* CircuitBreakerState(): the dataclass defaults.
NewBreaker == [failure_count |-> 0, is_open |-> FALSE, last_failure_time |-> 0]

\* Mutant of ShouldSkip: the recovery test is turned round.
ShouldSkipInverted(c, t) ==
    IF ~c.is_open THEN FALSE
    ELSE IF t - c.last_failure_time <= RECOVERY_TIMEOUT THEN FALSE
    ELSE TRUE

\* _should_skip_source on breaker c at time t.  It only reads the breaker.
ShouldSkip(c, t) ==
    IF ~c.is_open THEN FALSE
    ELSE IF t - c.last_failure_time >= RECOVERY_TIMEOUT THEN FALSE
    ELSE TRUE

\* Mutant of RecordSuccess: the breaker is closed, the count is kept.
RecordSuccessKeepsCount(c) == [c EXCEPT !.is_open = FALSE]

\* Mutant of RecordSuccess: the count is reset, the breaker stays open.
RecordSuccessKeepsOpen(c) == [c EXCEPT !.failure_count = 0]

\* _record_success on breaker c.
RecordSuccess(c) == [c EXCEPT !.failure_count = 0, !.is_open = FALSE]

\* Mutant of FailureCountRead: the count is the one read before the await.
FailureCountStale(tk, s) == snap[tk]

\* The read of cb.failure_count in "cb.failure_count += 1": it happens in the
\* same event-loop step as the write, so it sees the current value.
FailureCountRead(tk, s) == cb[s].failure_count

\* Mutant of RecordFailure: the breaker opens one failure late.
RecordFailureLate(c, n, t) ==
    [failure_count |-> n + 1,
     last_failure_time |-> t,
     is_open |-> IF n + 1 > FAILURE_THRESHOLD THEN TRUE ELSE c.is_open]

\* Mutant of RecordFailure: a failure on an open breaker keeps the time of
\* the failure that opened it.
RecordFailureKeepsTime(c, n, t) ==
    [failure_count |-> n + 1,
     last_failure_time |-> IF c.is_open THEN c.last_failure_time ELSE t,
     is_open |-> IF n + 1 >= FAILURE_THRESHOLD THEN TRUE ELSE c.is_open]

\* _record_failure on breaker c at time t, n being the count read.
RecordFailure(c, n, t) ==
    [failure_count |-> n + 1,
     last_failure_time |-> t,
     is_open |-> IF n + 1 >= FAILURE_THRESHOLD THEN TRUE ELSE c.is_open]

\* Mutant of IsValid: an empty DataFrame passes for a result.
IsValidNotNone(k) == k # "None"

\* "result is not None" and not an empty DataFrame (lines 151-153).
IsValid(k) == k # "None" /\ k # "EmptyDF"

\* Mutant of Caught: the handler misses the timeout.
CaughtNoTimeout(e) == e = "Exception"

\* "except Exception" (line 157): asyncio.TimeoutError and every error a
\* source raises are subclasses of Exception.
Caught(e) == e \in {"Exception", "TimeoutError"}

\* Mutant of NextIdx: the loop passes over a source.
NextIdxHop(i) == i + 2

\* The next element of "for source in self.sources".
NextIdx(i) == i + 1

\* Mutant of MayRetry: one attempt too many.
MayRetryOnceMore(n) == n <= MAX_ATTEMPTS

\* stop_after_attempt(3): the worker thread may call again after n calls.
MayRetry(n) == n < MAX_ATTEMPTS

\* wait_for(..., timeout): the window that started at t0 has run out at t.
TimedOut(t0, t) == t - t0 >= DEFAULT_TIMEOUT

\* Mutant of WindowStart: the window starts again with every attempt.
WindowStartPerAttempt(tk) == since[tk]

\* The start of the window of wait_for (lines 121-124): wait_for wraps the
\* future of retriable_func, the function that tenacity retries, so the
\* window starts once, when the call is awaited.
WindowStart(tk) == started[tk]

\* wait_exponential(multiplier=1, min=1, max=10): seconds tenacity sleeps
\* after the n-th attempt has failed.
Backoff(n) ==
    LET e == BACKOFF_MULTIPLIER * 2 ^ (n - 1)
        capped == IF e < BACKOFF_MAX THEN e ELSE BACKOFF_MAX
    IN  IF capped > BACKOFF_MIN THEN capped ELSE BACKOFF_MIN

\* The three logical states of the breaker, as encoded by its fields.
BreakerClass(c, t) ==
    IF ~c.is_open THEN "closed"
    ELSE IF t - c.last_failure_time >= RECOVERY_TIMEOUT THEN "half-open"
    ELSE "open"

Src(tk) == Sources[idx[tk]]

\* History: what the coroutine tk sees when it writes to the breaker.
NoWrite == [class |-> "-", raced |-> FALSE]
WriteSeen(tk) ==
    [class |-> BreakerClass(cb[Src(tk)], now),
     raced |-> cb[Src(tk)].failure_count # snap[tk]]

\* Lines 138-143: the position, from i on, of the first source that the
\* skip-check lets through at time t, the breakers being b (a position past
\* the end of the list when there is none).
RECURSIVE FirstCallable(_, _, _)
FirstCallable(i, b, t) ==
    IF i > NumSources THEN i
    ELSE IF ShouldSkip(b[Sources[i]], t) THEN FirstCallable(NextIdx(i), b, t)
    ELSE i

\* History: the sources skipped on the way from i to FirstCallable(i, b, t).
RECURSIVE Skipped(_, _, _)
Skipped(i, b, t) ==
    IF i > NumSources THEN <<>>
    ELSE IF ShouldSkip(b[Sources[i]], t)
         THEN <<[src |-> Sources[i], out |-> "skipped"]>>
                  \o Skipped(NextIdx(i), b, t)
    ELSE <<>>

\* History: the last entry of h is given its outcome.
Closed(h, what) == [h EXCEPT ![Len(h)].out = what]

(***************************************************************************)
(* collect_all: constants and helpers.                                     *)
(***************************************************************************)
\* global_tasks (lines 288-293): get_market_breadth, get_north_funds,
\* get_indices, get_macro_news, in this order.
Globals == <<"market_breadth", "north_funds", "indices", "macro_news">>
NumGlobals == Len(Globals)

\* The global branches out of which an exception can come: get_north_funds
\* and get_indices run entirely inside try/except Exception,
\* get_market_breadth only awaits _fetch_with_fallback, which does not raise;
\* get_macro_news filters the titles outside its try block (lines 273-278).
MayRaise == {4}

\* What df_all_spot can hold for one code: no row ("absent": also when the
\* bulk fetch returned None or an empty frame), a row with a price that
\* parses to a non-zero float ("priced"), a row whose price is 0.0 or whose
\* parsing raises ValueError/KeyError/IndexError, which lines 544-545
\* swallow ("zero"), or a row whose parsing raises another error ("bad").
RowKinds == {"absent", "priced", "zero", "bad"}

\* collect_all has returned nothing yet.
NoOut ==
    [market_breadth |-> "-", north_funds |-> "-", indices |-> "-",
     macro_news |-> "-", stocks |-> <<>>]

\* Before collect_all is called.
NoCollect ==
    /\ portfolio = 0
    /\ cpc = "idle"
    /\ bulk = <<>>
    /\ gl = [g \in 1..NumGlobals |-> "none"]
    /\ st = <<>>
    /\ out = NoOut
    /\ bulkCalls = 0

\* Nothing has been handed to evaluate_signal, calculate_rolling_stats or
\* the stitching of calculate_indicators.
Idle == [pc |-> "idle"]
NoAnalysis ==
    /\ ev = Idle
    /\ roll = Idle
    /\ calc = Idle

\* No processing cycle has begun.
NoCycle ==
    /\ NoAnalysis
    /\ spc = "idle"
    /\ raws = <<>>
    /\ processed = <<>>
    /\ holdings = <<>>
    /\ rules = <<>>
    /\ results = <<>>

(***************************************************************************)
(* Initial state: a freshly constructed DataCollector, no fetch started.   *)
(***************************************************************************)
IdleTasks ==
    /\ pc = [tk \in Tasks |-> "idle"]
    /\ idx = [tk \in Tasks |-> 1]
    /\ fut = [tk \in Tasks |-> "none"]
    /\ started = [tk \in Tasks |-> 0]
    /\ att = [tk \in Tasks |-> 0]
    /\ ret = [tk \in Tasks |-> NoRet]
    /\ calls = [tk \in Tasks |-> <<>>]
    /\ admit = [tk \in Tasks |-> "-"]
    /\ snap = [tk \in Tasks |-> 0]
    /\ pre = [tk \in Tasks |-> NoWrite]
    /\ phase = [tk \in Tasks |-> "-"]
    /\ since = [tk \in Tasks |-> 0]
    /\ late = [tk \in Tasks |-> [s \in SourceNames |-> "-"]]
    /\ NoCollect

FreshCollector ==
    /\ cb = [s \in SourceNames |-> NewBreaker]
    /\ consec = [s \in SourceNames |-> 0]
    /\ now = 0
    /\ invocations = 0
    /\ can = [s \in SourceNames |-> Outcomes]
    /\ IdleTasks

Init == FreshCollector /\ NoCycle

(***************************************************************************)
(* _fetch_with_fallback.  One action is one step of the event loop: the    *)
(* code the coroutine runs from its start, or from the end of its await,   *)
(* to its next await or to its return.                                     *)
(***************************************************************************)
\* Lines 138-148 and 164-165.  The loop of tk goes on at position i, the
\* breakers being b and h being the history of the invocation so far: the
\* sources the breaker says to skip are passed over, then either the next
\* source's method is handed to the executor and the coroutine awaits it
\* under wait_for, or the list is exhausted and None is returned.
Continue(tk, i, b, h) ==
    LET j == FirstCallable(i, b, now)
        h2 == h \o Skipped(i, b, now)
    IN  /\ idx' = [idx EXCEPT ![tk] = j]
        /\ att' = [att EXCEPT ![tk] = 0]
        /\ IF j <= NumSources
           THEN /\ pc' = [pc EXCEPT ![tk] = "await"]
                /\ fut' = [fut EXCEPT ![tk] = "running"]
                /\ started' = [started EXCEPT ![tk] = now]
                /\ ret' = [ret EXCEPT ![tk] = NoRet]
                /\ calls' = [calls EXCEPT ![tk] =
                                Append(h2, [src |-> Sources[j], out |-> "pending"])]
                /\ admit' = [admit EXCEPT ![tk] = BreakerClass(b[Sources[j]], now)]
                /\ snap' = [snap EXCEPT ![tk] = b[Sources[j]].failure_count]
           ELSE /\ pc' = [pc EXCEPT ![tk] = "done"]
                /\ fut' = [fut EXCEPT ![tk] = "none"]
                /\ started' = [started EXCEPT ![tk] = 0]
                /\ ret' = [ret EXCEPT ![tk] = RetNone]
                /\ calls' = [calls EXCEPT ![tk] = h2]
                /\ UNCHANGED <<admit, snap>>

\* A coroutine calls _fetch_with_fallback (line 132); limit bounds the
\* invocations started.
Start(tk, limit) ==
    /\ pc[tk] \in {"idle", "done"}
    /\ invocations < limit
    /\ invocations' = invocations + 1
    /\ pre' = [pre EXCEPT ![tk] = NoWrite]
    /\ Continue(tk, 1, cb, <<>>)
    /\ UNCHANGED <<fixed, cb, now, consec>>

\* retriable_func on the worker thread (lines 108-118): one call of the
\* source method.  A value ends the future; an exception is retried (after
\* the backoff sleep) while MayRetry holds and is re-raised otherwise.
Attempt(tk) ==
    /\ pc[tk] = "await"
    /\ fut[tk] = "running"
    /\ MayRetry(att[tk])
    /\ att' = [att EXCEPT ![tk] = @ + 1]
    /\ \E o \in can[Src(tk)] :
          fut' = [fut EXCEPT ![tk] =
                     IF o = "Exception" /\ MayRetry(att[tk] + 1)
                     THEN "running" ELSE o]
    /\ UNCHANGED <<fixed, cb, now, pc, idx, started, ret, invocations, hist>>

\* Lines 151-156: a valid result; record the success and return it.
OnValid(tk) ==
    /\ pc[tk] = "await"
    /\ fut[tk] \in Kinds
    /\ IsValid(fut[tk])
    /\ cb' = [cb EXCEPT ![Src(tk)] = RecordSuccess(@)]
    /\ consec' = [consec EXCEPT ![Src(tk)] = 0]
    /\ pre' = [pre EXCEPT ![tk] = WriteSeen(tk)]
    /\ ret' = [ret EXCEPT ![tk] = [src |-> Src(tk), kind |-> fut[tk]]]
    /\ pc' = [pc EXCEPT ![tk] = "done"]
    /\ fut' = [fut EXCEPT ![tk] = "none"]
    /\ started' = [started EXCEPT ![tk] = 0]
    /\ att' = [att EXCEPT ![tk] = 0]
    /\ calls' = [calls EXCEPT ![tk] = Closed(@, "valid")]
    /\ UNCHANGED <<fixed, now, idx, invocations, admit, snap>>

\* Lines 151-153: None or an empty DataFrame; go on with the next source.
OnInvalid(tk) ==
    /\ pc[tk] = "await"
    /\ fut[tk] \in Kinds
    /\ ~IsValid(fut[tk])
    /\ Continue(tk, NextIdx(idx[tk]), cb, Closed(calls[tk], "invalid"))
    /\ UNCHANGED <<fixed, cb, now, invocations, pre, consec>>

\* The except branch (lines 157-162) for error e.  A caught error is
\* recorded as one failure of the source and the loop goes on with the next
\* source; an error the handler does not catch leaves the coroutine.
HandleError(tk, e) ==
    IF Caught(e)
    THEN LET b == [cb EXCEPT ![Src(tk)] =
                      RecordFailure(@, FailureCountRead(tk, Src(tk)), now)]
         IN  /\ cb' = b
             /\ consec' = [consec EXCEPT ![Src(tk)] = @ + 1]
             /\ pre' = [pre EXCEPT ![tk] = WriteSeen(tk)]
             /\ Continue(tk, NextIdx(idx[tk]), b, Closed(calls[tk], "failed"))
    ELSE /\ pc' = [pc EXCEPT ![tk] = "raised"]
         /\ UNCHANGED <<cb, consec, pre, idx, fut, started, att, ret,
                        calls, admit, snap>>

\* Lines 128-130: the retries are exhausted, the source's exception reaches
\* _fetch_with_fallback.
OnException(tk) ==
    /\ pc[tk] = "await"
    /\ fut[tk] = "Exception"
    /\ HandleError(tk, "Exception")
    /\ UNCHANGED <<fixed, now, invocations>>

\* Lines 121-127: wait_for's window runs out before the future is done.
\* The coroutine gets TimeoutError; the worker thread cannot be interrupted
\* and goes on by itself, its result going to a future nobody awaits.
Timeout(tk) ==
    /\ pc[tk] = "await"
    /\ fut[tk] = "running"
    /\ TimedOut(started[tk], now)
    /\ HandleError(tk, "TimeoutError")
    /\ late' = [late EXCEPT ![tk][Src(tk)] = "running"]
    /\ UNCHANGED <<fixed0, now, invocations>>

\* Mutant of LateResult: a late value is recorded as a success.
LateResultRecorded(c, o) == IF o = "Data" THEN RecordSuccess(c) ELSE c

\* What the end of a given-up call does to the breaker c of its source, o
\* being what the call ends with: wait_for has cancelled the future the
\* coroutine awaited (line 121), so no line of _fetch_with_fallback runs for
\* this result and the breaker is left as it is.
LateResult(c, o) == c

\* The worker thread of a call that wait_for gave up comes to its end: the
\* source method returns or raises for the last time.
LateReturn(tk) ==
    \E s \in SourceNames :
        /\ late[tk][s] = "running"
        /\ late' = [late EXCEPT ![tk][s] = "ended"]
        /\ \E o \in can[s] : cb' = [cb EXCEPT ![s] = LateResult(@, o)]
        /\ UNCHANGED <<fixed0, now, pc, idx, fut, started, att, ret,
                       invocations, hist>>

\* Time passes: len seconds, up to time end.
Tick(len, end) ==
    /\ now + len <= end
    /\ now' = now + len
    /\ UNCHANGED <<fixed, cb, pc, idx, fut, started, att, ret,
                   invocations, hist>>

\* One step of the coroutine tk.
Step(tk, limit) ==
    \/ Start(tk, limit) \/ Attempt(tk)
    \/ OnValid(tk) \/ OnInvalid(tk) \/ OnException(tk) \/ Timeout(tk)

(***************************************************************************)
(* Spec: one fetch path.  A single coroutine calls _fetch_with_fallback    *)
(* again and again on a freshly constructed collector.                     *)
(***************************************************************************)
Next == Step(1, MaxInvocations) \/ Tick(TickLen, MaxTicks * TickLen)

Spec == Init /\ [][Next]_vars

(***************************************************************************)
(* SpecConc: concurrent fetch paths (the per-instrument fetches gathered   *)
(* by collect_all, line 309).  It starts from a collector whose last n     *)
(* invocations failed on the first source and were answered by the second, *)
(* n up to FAILURE_THRESHOLD: breaker states that Spec reaches.            *)
(***************************************************************************)
RECURSIVE Failed(_)
Failed(n) == IF n = 0 THEN NewBreaker
             ELSE RecordFailure(Failed(n - 1), Failed(n - 1).failure_count, 0)

Warm(n) ==
    /\ cb = [s \in SourceNames |->
                IF s = Sources[1] THEN Failed(n) ELSE NewBreaker]
    /\ consec = [s \in SourceNames |-> IF s = Sources[1] THEN n ELSE 0]
    /\ now = 0
    /\ invocations = 0

InitConc ==
    /\ \E n \in 0..FAILURE_THRESHOLD : Warm(n)
    /\ can = [s \in SourceNames |-> ConcOutcomes]
    /\ IdleTasks
    /\ NoCycle

NextConc ==
    \/ \E tk \in Tasks : Step(tk, ConcInvocations)
    \/ Tick(ConcTickLen, ConcMaxTicks * ConcTickLen)

SpecConc == InitConc /\ [][NextConc]_vars

(***************************************************************************)
(* SpecContent: one fetch path over sources that answer the same way every *)
(* time: each source always hands back a value of one kind, or always      *)
(* raises.  What a later source would have returned is then a fact of the  *)
(* state.                                                                  *)
(***************************************************************************)
Steady == {{o} : o \in Outcomes}

InitContent ==
    /\ \E n \in 0..FAILURE_THRESHOLD : Warm(n)
    /\ can \in [SourceNames -> Steady]
    /\ IdleTasks
    /\ NoCycle

NextContent ==
    Step(1, ContentInvocations) \/ Tick(TickLen, MaxTicks * TickLen)

SpecContent == InitContent /\ [][NextContent]_vars

(***************************************************************************)
(* SpecLate: one fetch path on a fresh collector, the worker threads that  *)
(* wait_for gave up being followed to their end.  The other                *)
(* specifications leave these threads where the timeout left them: their   *)
(* end writes to late only.                                                *)
(***************************************************************************)
NextLate ==
    \/ Step(1, LateInvocations)
    \/ LateReturn(1)
    \/ Tick(TickLen, MaxTicks * TickLen)

SpecLate == Init /\ [][NextLate]_vars

(***************************************************************************)
(* SpecRun: the timing of _run_blocking (lines 101-130), second by second. *)
(* Spec lets the worker thread's attempts take no time; here a call of the *)
(* source method and a backoff sleep last, and the clock of wait_for runs  *)
(* meanwhile.  pc is "await" while the coroutine is in wait_for and "done" *)
(* once _run_blocking has returned or raised; fut keeps what it got.       *)
(* phase follows the worker thread of the latest call of the task.         *)
(***************************************************************************)
\* Lines 105-124: the coroutine hands retriable_func to the executor and
\* awaits it under wait_for; the function waits for a free worker thread.
RunSubmit(tk) ==
    /\ pc[tk] \in {"idle", "done"}
    /\ invocations < RunCalls
    /\ invocations' = invocations + 1
    /\ pc' = [pc EXCEPT ![tk] = "await"]
    /\ fut' = [fut EXCEPT ![tk] = "running"]
    /\ started' = [started EXCEPT ![tk] = now]
    /\ att' = [att EXCEPT ![tk] = 0]
    /\ phase' = [phase EXCEPT ![tk] = "queued"]
    /\ since' = [since EXCEPT ![tk] = now]
    /\ UNCHANGED <<cb, now, idx, ret, hist, can, late, collectv, signalv,
                   analysisv>>

\* Lines 113-115: the worker thread calls the source method: the first
\* attempt as soon as a thread is free, a retry when the backoff is over.
\* Nothing tells the thread that the coroutine has given up on it.
RunCall(tk) ==
    /\ fut[tk] \in {"running", "TimeoutError"}
    /\ \/ phase[tk] = "queued"
       \/ phase[tk] = "sleeping" /\ now - since[tk] >= Backoff(att[tk])
    /\ att' = [att EXCEPT ![tk] = @ + 1]
    /\ phase' = [phase EXCEPT ![tk] = "calling"]
    /\ since' = [since EXCEPT ![tk] = now]
    /\ UNCHANGED <<cb, now, pc, idx, fut, started, ret, invocations, hist, can,
                   late, collectv, signalv, analysisv>>

\* Lines 108-118: the call of the source method ends.  A value ends
\* retriable_func; an exception makes tenacity sleep and call again while
\* MayRetry holds, and is re-raised otherwise.  The end of retriable_func
\* sets the future, unless wait_for has already given it up.
RunReturn(tk) ==
    /\ phase[tk] = "calling"
    /\ \E o \in can[Src(tk)] :
          IF o = "Exception" /\ MayRetry(att[tk])
          THEN /\ phase' = [phase EXCEPT ![tk] = "sleeping"]
               /\ since' = [since EXCEPT ![tk] = now]
               /\ UNCHANGED <<fut, pc>>
          ELSE /\ phase' = [phase EXCEPT ![tk] = "-"]
               /\ UNCHANGED since
               /\ IF fut[tk] = "running"
                  THEN /\ fut' = [fut EXCEPT ![tk] = o]
                       /\ pc' = [pc EXCEPT ![tk] = "done"]
                  ELSE UNCHANGED <<fut, pc>>
    /\ UNCHANGED <<cb, now, idx, started, att, ret, invocations, hist, can,
                   late, collectv, signalv, analysisv>>

\* Lines 121-127: the window of wait_for runs out; _run_blocking raises
\* asyncio.TimeoutError.  The worker thread goes on.
RunTimeout(tk) ==
    /\ pc[tk] = "await"
    /\ fut[tk] = "running"
    /\ TimedOut(WindowStart(tk), now)
    /\ fut' = [fut EXCEPT ![tk] = "TimeoutError"]
    /\ pc' = [pc EXCEPT ![tk] = "done"]
    /\ UNCHANGED <<fixed, cb, now, idx, started, att, ret, invocations, hist>>

\* One second passes.  The event loop fires the timeout of wait_for when its
\* window has run out, and time.sleep returns when the backoff is over.
RunTick ==
    /\ now < RunMaxTime
    /\ \A tk \in Tasks :
          /\ ~(pc[tk] = "await" /\ fut[tk] = "running"
                 /\ TimedOut(WindowStart(tk), now))
          /\ ~(phase[tk] = "sleeping" /\ now - since[tk] >= Backoff(att[tk]))
    /\ now' = now + 1
    /\ UNCHANGED <<fixed, cb, pc, idx, fut, started, att, ret,
                   invocations, hist>>

NextRun ==
    \/ RunSubmit(1) \/ RunCall(1) \/ RunReturn(1) \/ RunTimeout(1)
    \/ RunTick

SpecRun == Init /\ [][NextRun]_vars

(***************************************************************************)
(* SpecCollect: collect_all (lines 282-331) and the per-instrument branch  *)
(* _fetch_individual_stock_extras (lines 524-633).  Every entry of the     *)
(* portfolio carries a code.  A call of _fetch_with_fallback is an await   *)
(* that ends with some result and never raises.                            *)
(***************************************************************************)
\* Mutant of ReturnExceptions: gather re-raises the first exception.
ReturnExceptionsOff == FALSE

\* asyncio.gather(..., return_exceptions=True), lines 308-309: an exception
\* of a branch is handed back as the result of that branch.
ReturnExceptions == TRUE

\* Mutant of NeedsQuote: the individual quote is always fetched.
NeedsQuoteAlways(row) == TRUE

\* Lines 530-549: current_price is still 0.0 after the bulk result has been
\* consulted, so that fetch_single_quote is called.
NeedsQuote(row) == row \in {"absent", "zero"}

\* Mutant of IsValidStock: error records are not filtered out.
IsValidStockAny(at) == at \in {"ok", "error"}

\* Line 323: the result of a branch is kept: not an exception, a dict, and
\* without the key "error".
IsValidStock(at) == at = "ok"

\* Lines 316-319: the value returned for a global branch that ended as r:
\* its own result, or the default when the result is an exception.
GlobalValue(r) == IF r = "raised" THEN "default" ELSE "value"

\* Lines 321-323: the positions of the kept results among positions k..n,
\* in order; stv holds the branches.
RECURSIVE ValidStocks(_, _)
ValidStocks(k, stv) ==
    IF k > Len(stv) THEN <<>>
    ELSE (IF IsValidStock(stv[k].at) THEN <<k>> ELSE <<>>)
             \o ValidStocks(k + 1, stv)

\* Lines 316-331: the dict collect_all returns after the two gathers.
Returned(stv) ==
    [market_breadth |-> GlobalValue(gl[1]),
     north_funds |-> GlobalValue(gl[2]),
     indices |-> GlobalValue(gl[3]),
     macro_news |-> GlobalValue(gl[4]),
     stocks |-> ValidStocks(1, stv)]

\* Lines 310-331: what is returned when a gather has raised: the except
\* branch sets global_results = [None] * 4 and stock_results = [].
Salvaged ==
    [market_breadth |-> "None", north_funds |-> "None", indices |-> "None",
     macro_news |-> "None", stocks |-> <<>>]

\* What collect_all never touches in this specification.
collector == <<cb, now, pc, idx, fut, started, att, ret, invocations,
               calls, admit, snap, pre, consec, can, phase, since, late,
               signalv, analysisv>>

\* Lines 286-297: collect_all is called with a portfolio of n entries.  It
\* creates the four global coroutine objects, which nothing runs yet, and
\* awaits the bulk spot fetch.
CollectStart(n) ==
    /\ cpc = "idle"
    /\ portfolio' = n
    /\ cpc' = "bulk"
    /\ gl' = [g \in 1..NumGlobals |-> "created"]
    /\ bulkCalls' = bulkCalls + 1
    /\ UNCHANGED <<collector, bulk, st, out>>

\* Lines 297-308: the bulk spot fetch is back with some content; the
\* coroutine object of every instrument is created, then the global
\* branches are handed to the first gather, which collect_all awaits.
BulkDone ==
    /\ cpc = "bulk"
    /\ \E rows \in [1..portfolio -> RowKinds] : bulk' = rows
    /\ st' = [k \in 1..portfolio |-> [at |-> "created", quoted |-> FALSE]]
    /\ gl' = [g \in 1..NumGlobals |-> "running"]
    /\ cpc' = "globals"
    /\ UNCHANGED <<collector, portfolio, out, bulkCalls>>

\* A global branch ends (lines 170-280): with a value, its own fallback
\* value included, or with an exception that leaves the coroutine.
GlobalDone(g) ==
    /\ cpc = "globals"
    /\ gl[g] = "running"
    /\ \E r \in {"value"} \cup (IF g \in MayRaise THEN {"raised"} ELSE {}) :
          gl' = [gl EXCEPT ![g] = r]
    /\ UNCHANGED <<collector, portfolio, cpc, bulk, st, out, bulkCalls>>

\* Lines 308-309: the first gather is done; the per-instrument branches are
\* handed to the second gather.  With an empty portfolio the second gather
\* has nothing to wait for and collect_all returns.
GlobalsGathered ==
    /\ cpc = "globals"
    /\ \A g \in 1..NumGlobals : gl[g] \in {"value", "raised"}
    /\ UNCHANGED gl
    /\ IF ~ReturnExceptions /\ \E g \in 1..NumGlobals : gl[g] = "raised"
       THEN /\ cpc' = "returned"
            /\ out' = Salvaged
            /\ UNCHANGED st
       ELSE IF portfolio = 0
       THEN /\ cpc' = "returned"
            /\ out' = Returned(st)
            /\ UNCHANGED st
       ELSE /\ cpc' = "stocks"
            /\ st' = [k \in 1..portfolio |-> [st[k] EXCEPT !.at = "scheduled"]]
            /\ UNCHANGED out
    /\ UNCHANGED <<collector, portfolio, bulk, bulkCalls>>

\* Lines 528-561: the first step of the branch of entry k.  It looks the
\* code up in the bulk result; with no price from there it awaits
\* fetch_single_quote, otherwise it awaits fetch_prices.  An exception
\* ends the branch with an error record (lines 631-633).
StockConsult(k) ==
    /\ cpc = "stocks"
    /\ k <= portfolio
    /\ st[k].at = "scheduled"
    /\ st' = [st EXCEPT ![k] =
                 IF bulk[k] = "bad" THEN [@ EXCEPT !.at = "error"]
                 ELSE IF NeedsQuote(bulk[k])
                      THEN [at |-> "quote", quoted |-> TRUE]
                 ELSE [@ EXCEPT !.at = "history"]]
    /\ UNCHANGED <<collector, portfolio, cpc, bulk, gl, out, bulkCalls>>

\* Lines 550-561: the individual quote is back (a quote or None; a quote
\* that does not parse is only logged); the branch awaits fetch_prices.
StockQuoteDone(k) ==
    /\ cpc = "stocks"
    /\ k <= portfolio
    /\ st[k].at = "quote"
    /\ st' = [st EXCEPT ![k].at = "history"]
    /\ UNCHANGED <<collector, portfolio, cpc, bulk, gl, out, bulkCalls>>

\* Lines 561-615: the history is back; the averages are computed and the
\* branch awaits fetch_news.  An exception in between (line 607 is not
\* guarded) ends the branch with an error record.
StockHistoryDone(k) ==
    /\ cpc = "stocks"
    /\ k <= portfolio
    /\ st[k].at = "history"
    /\ \E a \in {"news", "error"} : st' = [st EXCEPT ![k].at = a]
    /\ UNCHANGED <<collector, portfolio, cpc, bulk, gl, out, bulkCalls>>

\* Lines 615-629: the news are back; the branch returns its record.
StockNewsDone(k) ==
    /\ cpc = "stocks"
    /\ k <= portfolio
    /\ st[k].at = "news"
    /\ st' = [st EXCEPT ![k].at = "ok"]
    /\ UNCHANGED <<collector, portfolio, cpc, bulk, gl, out, bulkCalls>>

\* Lines 309-331: the second gather is done; collect_all returns.
StocksGathered ==
    /\ cpc = "stocks"
    /\ \A k \in 1..portfolio : st[k].at \in {"ok", "error"}
    /\ cpc' = "returned"
    /\ out' = Returned(st)
    /\ UNCHANGED <<collector, portfolio, bulk, gl, st, bulkCalls>>

\* One step of the branch of entry k.
StockStep(k) ==
    \/ StockConsult(k) \/ StockQuoteDone(k)
    \/ StockHistoryDone(k) \/ StockNewsDone(k)

NextCollect ==
    \/ \E n \in 0..MaxPortfolio : CollectStart(n)
    \/ BulkDone
    \/ \E g \in 1..NumGlobals : GlobalDone(g)
    \/ GlobalsGathered
    \/ \E k \in 1..MaxPortfolio : StockStep(k)
    \/ StocksGathered

SpecCollect == Init /\ [][NextCollect]_vars

(***************************************************************************)
(* DataProcessor.generate_signals (lines 647-851).                         *)
(*                                                                         *)
(* A stock is a record.  keys tells which dict calculate_indicators has    *)
(* returned: "full" (lines 620-641), "insufficient" (lines 431-439: ma20   *)
(* 0.0 and none of pct_change, volume_ratio and the indicators) or "raw"   *)
(* (line 645: the collected dict itself, which has no ma20).  The fields   *)
(* hold the values the code reads, with their .get defaults where the key  *)
(* is missing.  name and code are sequences of characters.                 *)
(***************************************************************************)
\* "x in s" for strings.
Contains(seq, sub) ==
    \E i \in 0..(Len(seq) - Len(sub)) :
        \A j \in 1..Len(sub) : seq[i + j] = sub[j]

\* s.startswith(prefix)
StartsWith(seq, prefix) ==
    /\ Len(seq) >= Len(prefix)
    /\ \A j \in 1..Len(prefix) : seq[j] = prefix[j]

\* Mutant of LimitThreshold: a lower-case st is not looked for.
LimitThresholdUpperOnly(name, code) ==
    IF Contains(name, <<"S", "T">>) THEN LIMIT_ST
    ELSE IF \/ StartsWith(code, <<"3", "0", "0">>)
            \/ StartsWith(code, <<"3", "0", "1">>)
            \/ StartsWith(code, <<"6", "8", "8">>)
         THEN LIMIT_GROWTH
    ELSE LIMIT_MAIN

\* Lines 692-697: the limit threshold of the board of the instrument.
LimitThreshold(name, code) ==
    IF Contains(name, <<"S", "T">>) \/ Contains(name, <<"s", "t">>)
    THEN LIMIT_ST
    ELSE IF \/ StartsWith(code, <<"3", "0", "0">>)
            \/ StartsWith(code, <<"3", "0", "1">>)
            \/ StartsWith(code, <<"6", "8", "8">>)
         THEN LIMIT_GROWTH
    ELSE LIMIT_MAIN

\* Mutant of BaseSignal: the tiers are closed on the right.
BaseSignalClosedRight(price, ma20, bias, volume_ratio) ==
    IF price > ma20
    THEN IF bias > BIAS_OVERBOUGHT_THRESHOLD THEN "OVERBOUGHT" ELSE "SAFE"
    ELSE IF bias <= BIAS_DANGER_THRESHOLD THEN "DANGER"
    ELSE IF bias <= BIAS_WARNING_THRESHOLD
         THEN IF volume_ratio > VOLUME_RATIO_HIGH THEN "DANGER" ELSE "WARNING"
    ELSE IF bias <= BIAS_WATCH_THRESHOLD THEN "WATCH"
    ELSE "OBSERVED"

\* Lines 711-733: the signal by bias tier and volume confirmation.
BaseSignal(price, ma20, bias, volume_ratio) ==
    IF price > ma20
    THEN IF bias > BIAS_OVERBOUGHT_THRESHOLD THEN "OVERBOUGHT" ELSE "SAFE"
    ELSE IF bias < BIAS_DANGER_THRESHOLD THEN "DANGER"
    ELSE IF bias < BIAS_WARNING_THRESHOLD
         THEN IF volume_ratio > VOLUME_RATIO_HIGH THEN "DANGER" ELSE "WARNING"
    ELSE IF bias < BIAS_WATCH_THRESHOLD THEN "WATCH"
    ELSE "OBSERVED"

\* Lines 736-781: the feature flags of the rule engine.
Flags(stock) ==
    LET i == stock.ind
        F(cond, flag) == IF cond THEN {flag} ELSE {}
    IN  F(i.macd_trend \in {"BULLISH", "GOLDEN_CROSS"}, "MACD_BULLISH")
        \cup F(i.macd_trend \in {"BEARISH", "DEATH_CROSS"}, "MACD_BEARISH")
        \cup F(i.macd_trend = "GOLDEN_CROSS", "MACD_GOLDEN_CROSS")
        \cup F(i.macd_power \in {"WEAK", "SUPER_WEAK"}, "MACD_WEAK")
        \cup F(i.macd_div = "BOTTOM_DIV", "MACD_BOTTOM_DIV")
        \cup F(i.macd_div = "TOP_DIV", "MACD_TOP_DIV")
        \cup F(i.obv_trend = "INFLOW", "OBV_INFLOW")
        \cup F(i.obv_trend = "OUTFLOW", "OBV_OUTFLOW")
        \cup F(stock.volume_ratio < VOLUME_RATIO_EVEN, "VOLUME_SHRINK")
        \cup F(stock.volume_ratio > VOLUME_RATIO_HIGH, "VOLUME_HIGH")
        \cup F(i.rsi > RSI_OVERBOUGHT /\ i.bb_position = "ABOVE_UPPER",
               "RSI_BB_OVERBOUGHT")
        \cup F(i.rsi > RSI_OVERBOUGHT, "RSI_OVERBOUGHT")
        \cup F(i.rsi < RSI_OVERSOLD, "RSI_OVERSOLD")
        \cup F(i.rsi < RSI_MIDDLE, "RSI_WEAK")
        \cup F(i.bb_position = "BELOW_LOWER", "BB_BELOW_LOWER")
        \cup F(i.bb_position = "ABOVE_UPPER", "BB_ABOVE_UPPER")
        \cup F(i.kdj_signal \in {"OVERSOLD", "OVERSOLD_GOLDEN"}, "KDJ_OVERSOLD")
        \cup F(i.kdj_signal \in {"OVERBOUGHT", "OVERBOUGHT_DEATH"},
               "KDJ_OVERBOUGHT")
        \cup F(i.kdj_signal = "OVERSOLD_GOLDEN", "KDJ_OVERSOLD_GOLDEN")
        \cup F(i.kdj_signal = "OVERBOUGHT_DEATH", "KDJ_OVERBOUGHT_DEATH")
        \cup F(i.atr_vol = "HIGH_VOLATILE", "ATR_HIGH_VOLATILE")
        \cup F(i.atr_vol = "LOW_VOLATILE", "ATR_LOW_VOLATILE")
        \cup F(i.continuous_shrink, "VOLUME_CONTINUOUS_SHRINK")

\* Lines 783-801: the confidence before the rules.  "high", "mid" and "low"
\* stand for the three confidence labels of the code.
DefaultConfidence(signal, flags) ==
    IF signal = "DANGER"
    THEN IF Cardinality(flags \cap {"MACD_BEARISH", "MACD_WEAK", "OBV_OUTFLOW",
                                     "RSI_OVERSOLD", "BB_BELOW_LOWER"}) >= 3
         THEN "high" ELSE "mid"
    ELSE IF signal = "OVERBOUGHT"
    THEN IF Cardinality(flags \cap {"RSI_OVERBOUGHT", "BB_ABOVE_UPPER",
                                     "MACD_BEARISH", "MACD_TOP_DIV"}) >= 2
         THEN "high" ELSE "mid"
    ELSE "mid"

\* Lines 806-821: the rule matches the signal and the flags.  An empty
\* conditions_all or conditions_any holds.
RuleMatches(rule, signal, flags) ==
    /\ signal \in rule.triggers
    /\ rule.conditions_all \subseteq flags
    /\ rule.conditions_any = {} \/ rule.conditions_any \cap flags # {}

\* Mutant of FirstMatch: the last matching rule wins.
RECURSIVE LastMatch(_, _, _, _)
LastMatch(rs, signal, flags, i) ==
    IF i > Len(rs) THEN 0
    ELSE LET later == LastMatch(rs, signal, flags, i + 1)
         IN  IF later # 0 THEN later
             ELSE IF RuleMatches(rs[i], signal, flags) THEN i ELSE 0

\* Lines 805-831: the loop over the rules from position i on; the position
\* of the rule at which it breaks, 0 when it runs to the end.
RECURSIVE FirstMatch(_, _, _, _)
FirstMatch(rs, signal, flags, i) ==
    IF i > Len(rs) THEN 0
    ELSE IF RuleMatches(rs[i], signal, flags) THEN i
    ELSE FirstMatch(rs, signal, flags, i + 1)

\* Lines 822-828: a field of the matching rule replaces the value when the
\* rule has that field and it is not empty.
Overlaid(value, field) == IF field # "" THEN field ELSE value

\* The day generate_signals runs (line 656) and the day before.
Today == 2
Yesterday == 1

\* A key that a returned dict does not have.
Absent == "absent"

\* Lines 838-845: the T+1 lock of the signal.  held: holdings is not empty
\* and has the code; day: holdings[code].
T1Signal(signal, held, day) ==
    IF held /\ day = Today /\ signal = "DANGER" THEN "LOCKED_DANGER"
    ELSE signal

\* Mutant of T1Tradeable: an instrument in the holdings is never tradeable.
T1TradeableNever(held, day) == IF ~held THEN Absent ELSE "False"

\* Lines 838-847: the tradeable key.
T1Tradeable(held, day) ==
    IF ~held THEN Absent
    ELSE IF day = Today THEN "False" ELSE "True"

\* Lines 675-676: stock['current_price'] and stock['ma20'] raise KeyError on
\* a dict without the key.
RaisesKeyError(stock) == stock.keys = "raw"

\* Lines 675-849: one turn of the loop on a stock that has the two keys:
\* the keys it leaves in the dict.  base is the signal before the rules.
SignalRecord(stock, h, rs) ==
    IF stock.ma20 = 0
    THEN [code |-> stock.code,
          signal |-> "N/A", base |-> Absent, confidence |-> Absent,
          tradeable |-> Absent, limit_status |-> Absent]
    ELSE IF stock.pct_change >= LimitThreshold(stock.name, stock.code)
    THEN [code |-> stock.code,
          signal |-> "LIMIT_UP", base |-> Absent, confidence |-> Absent,
          tradeable |-> Absent, limit_status |-> "up"]
    ELSE IF stock.pct_change <= -LimitThreshold(stock.name, stock.code)
    THEN [code |-> stock.code,
          signal |-> "LIMIT_DOWN", base |-> Absent, confidence |-> Absent,
          tradeable |-> Absent, limit_status |-> "down"]
    ELSE LET base == BaseSignal(stock.current_price, stock.ma20,
                                stock.bias_pct, stock.volume_ratio)
             flags == Flags(stock)
             m == FirstMatch(rs, base, flags, 1)
             signal == IF m = 0 THEN base ELSE Overlaid(base, rs[m].result)
             confidence ==
                 IF m = 0 THEN DefaultConfidence(base, flags)
                 ELSE Overlaid(DefaultConfidence(base, flags), rs[m].confidence)
             held == stock.code \in DOMAIN h
             day == IF held THEN h[stock.code] ELSE 0
         IN  [code |-> stock.code,
              signal |-> T1Signal(signal, held, day), base |-> base,
              confidence |-> confidence,
              tradeable |-> T1Tradeable(held, day),
              limit_status |-> Absent]

\* Lines 654-851: generate_signals on the list ps.  A KeyError leaves the
\* function: nothing is returned.
GenerateSignalsOf(ps, h, rs) ==
    IF \E i \in 1..Len(ps) : RaisesKeyError(ps[i])
    THEN [raised |-> TRUE, records |-> <<>>]
    ELSE [raised |-> FALSE,
          records |-> [i \in 1..Len(ps) |-> SignalRecord(ps[i], h, rs)]]

\* generate_signals is called on the processed stocks.
GenerateSignals ==
    /\ spc = "processed"
    /\ results' = GenerateSignalsOf(processed, holdings, rules).records
    /\ spc' = IF GenerateSignalsOf(processed, holdings, rules).raised
              THEN "raised" ELSE "done"
    /\ UNCHANGED <<collector0, collectv, analysisv, raws, processed,
                   holdings, rules>>

(***************************************************************************)
(* Inputs of generate_signals.                                             *)
(***************************************************************************)
\* The indicator dicts of a stock, by the fields the flags read.  Neutral
\* holds the .get defaults of lines 736-781.
Neutral ==
    [macd_trend |-> "UNKNOWN", macd_power |-> "UNKNOWN", macd_div |-> "NONE",
     obv_trend |-> "UNKNOWN", rsi |-> 50, bb_position |-> "UNKNOWN",
     kdj_signal |-> "NEUTRAL", atr_vol |-> "NORMAL",
     continuous_shrink |-> FALSE]
Bearish ==
    [macd_trend |-> "BEARISH", macd_power |-> "WEAK", macd_div |-> "NONE",
     obv_trend |-> "OUTFLOW", rsi |-> 25, bb_position |-> "BELOW_LOWER",
     kdj_signal |-> "OVERSOLD", atr_vol |-> "HIGH_VOLATILE",
     continuous_shrink |-> TRUE]
Recovering ==
    [macd_trend |-> "GOLDEN_CROSS", macd_power |-> "STRONG",
     macd_div |-> "BOTTOM_DIV", obv_trend |-> "INFLOW", rsi |-> 45,
     bb_position |-> "MIDDLE", kdj_signal |-> "OVERSOLD_GOLDEN",
     atr_vol |-> "NORMAL", continuous_shrink |-> FALSE]
Overheated ==
    [macd_trend |-> "DEATH_CROSS", macd_power |-> "SUPER_WEAK",
     macd_div |-> "TOP_DIV", obv_trend |-> "UNKNOWN", rsi |-> 80,
     bb_position |-> "ABOVE_UPPER", kdj_signal |-> "OVERBOUGHT_DEATH",
     atr_vol |-> "LOW_VOLATILE", continuous_shrink |-> FALSE]
Indicators == {Neutral, Bearish, Recovering, Overheated}

\* Names and codes: a main-board stock, an ST stock, a name with a
\* lower-case st, and the code prefixes of the boards.
Names == {<<"A", "B">>, <<"*", "S", "T", "A">>, <<"s", "t", "A">>}
Codes == {<<"6", "0", "0", "5">>, <<"3", "0", "0", "7">>,
          <<"3", "0", "1", "2">>, <<"6", "8", "8", "9">>}

\* bias_pct, volume_ratio and pct_change: the thresholds and values on both
\* sides of them.
Biases == {-600, -500, -400, -300, -200, -100, 0, 500, 600}
VolumeRatios == {80, 150, 200}
PctChanges == {-195, -95, -45, 0, 45, 95, 195}

\* The price of one unit of ma20, in the unit of bias_pct: with ma20 =
\* UnitMa20, bias_pct = (current_price - ma20) / ma20 is current_price -
\* ma20.
UnitMa20 == 10000

\* The dict of lines 620-641 (keys "full").
FullStock(code, name, ma20, bias, vr, pct, ind) ==
    [keys |-> "full", code |-> code, name |-> name,
     current_price |-> UnitMa20 + bias, ma20 |-> ma20, bias_pct |-> bias,
     volume_ratio |-> vr, pct_change |-> pct, ind |-> ind]

\* The dict of lines 431-439 (keys "insufficient"): ma20 and bias_pct are
\* 0.0; pct_change, volume_ratio and the indicators are missing and read
\* with their defaults 0.0, 1.0 and Neutral.
InsufficientStock(code, name, price) ==
    [keys |-> "insufficient", code |-> code, name |-> name,
     current_price |-> price, ma20 |-> 0, bias_pct |-> 0,
     volume_ratio |-> 100, pct_change |-> 0, ind |-> Neutral]

\* The collected dict, returned as it is by line 645 (keys "raw"): it has
\* current_price and pct_change, and neither ma20 nor bias_pct.
RawStock(code, name, price, pct) ==
    [keys |-> "raw", code |-> code, name |-> name,
     current_price |-> price, ma20 |-> 0, bias_pct |-> 0,
     volume_ratio |-> 100, pct_change |-> pct, ind |-> Neutral]

\* Rule lists for risk_params['signal_rules'].  "" is a field the rule does
\* not have.
RuleConfirm ==
    [triggers |-> {"DANGER"}, conditions_all |-> {"MACD_BEARISH"},
     conditions_any |-> {"OBV_OUTFLOW", "RSI_OVERSOLD"},
     result |-> "DANGER", confidence |-> "high"]
RuleSoften ==
    [triggers |-> {"DANGER", "WARNING"}, conditions_all |-> {},
     conditions_any |-> {"MACD_BOTTOM_DIV", "KDJ_OVERSOLD_GOLDEN"},
     result |-> "WATCH", confidence |-> "low"]
RuleDowngrade ==
    [triggers |-> {"DANGER", "SAFE"}, conditions_all |-> {},
     conditions_any |-> {}, result |-> "WARNING", confidence |-> ""]
RuleSure ==
    [triggers |-> {"OVERBOUGHT"}, conditions_all |-> {"RSI_OVERBOUGHT"},
     conditions_any |-> {}, result |-> "", confidence |-> "high"]
RuleLists ==
    {<<>>, <<RuleConfirm, RuleDowngrade>>, <<RuleDowngrade, RuleConfirm>>,
     <<RuleSoften, RuleConfirm, RuleSure>>}

\* The holdings argument for one code: none, bought the day before, bought
\* today.
HoldingsOf(code) ==
    {<<>>} \cup {[c \in {code} |-> d] : d \in {Yesterday, Today}}

(***************************************************************************)
(* SpecSignals: generate_signals on one stock; the stock, the holdings and *)
(* the rules range over the sets above.                                    *)
(***************************************************************************)
InitSignals ==
    /\ FreshCollector
    /\ NoAnalysis
    /\ spc = "processed"
    /\ raws = <<>>
    /\ results = <<>>
    /\ \E code \in Codes, name \in Names, ma20 \in {0, UnitMa20},
          bias \in Biases, vr \in VolumeRatios, pct \in PctChanges,
          ind \in Indicators :
          /\ processed = <<FullStock(code, name, ma20, bias, vr, pct, ind)>>
          /\ holdings \in HoldingsOf(code)
    /\ rules \in RuleLists

NextSignals == GenerateSignals

SpecSignals == InitSignals /\ [][NextSignals]_vars

(***************************************************************************)
(* SpecPipeline: one cycle of the pipeline (main.py lines 63-72,           *)
(* analysis_service.py lines 37-45): calculate_indicators on every         *)
(* collected stock, then generate_signals on the list.                     *)
(***************************************************************************)
\* What the history of a collected stock can be: None, an empty frame, a
\* frame without a close column (line 457 raises), a frame on which the
\* calculation raises another error, a frame that goes through.
Histories == {"None", "empty", "no_close", "faulty", "ok"}

\* A collected stock: history as above; calc holds the values the
\* calculation gives when it goes through.
Collected(code, name, priced, history, bias, pct) ==
    [code |-> code, name |-> name,
     current_price |-> IF priced THEN UnitMa20 + bias ELSE 0,
     history |-> history, bias |-> bias, pct_change |-> pct]

CollectedStocks ==
    {Collected(code, <<"A", "B">>, priced, history, bias, 0) :
        code \in {<<"6", "0", "0", "5">>, <<"3", "0", "0", "7">>},
        priced \in BOOLEAN, history \in Histories, bias \in {-600, 200}}

\* calculate_indicators (lines 419-645) by its three exits.
CalculateIndicatorsOf(raw) ==
    IF raw.current_price = 0 \/ raw.history \in {"None", "empty"}
    THEN InsufficientStock(raw.code, raw.name, raw.current_price)
    ELSE IF raw.history \in {"no_close", "faulty"}
    THEN RawStock(raw.code, raw.name, raw.current_price, raw.pct_change)
    ELSE FullStock(raw.code, raw.name, UnitMa20, raw.bias, 100,
                   raw.pct_change, Neutral)

\* main.py lines 65-69: the loop over the collected stocks.
CalculateIndicators ==
    /\ spc = "raw"
    /\ processed' = [i \in 1..Len(raws) |-> CalculateIndicatorsOf(raws[i])]
    /\ spc' = "processed"
    /\ UNCHANGED <<collector0, collectv, analysisv, raws, holdings, rules,
                   results>>

InitPipeline ==
    /\ FreshCollector
    /\ NoAnalysis
    /\ spc = "raw"
    /\ \E n \in 0..MaxStocks : raws \in [1..n -> CollectedStocks]
    /\ processed = <<>>
    /\ results = <<>>
    /\ holdings = <<>>
    /\ rules \in {<<>>, <<RuleDowngrade, RuleConfirm>>}

NextPipeline == CalculateIndicators \/ GenerateSignals

SpecPipeline == InitPipeline /\ [][NextPipeline]_vars

(***************************************************************************)
(* signal_tracker.evaluate_signal (lines 14-59).  A signal is the sequence *)
(* of its characters; next_day_pct is in hundredths of a percent (-50 is   *)
(* -0.5).                                                                  *)
(***************************************************************************)
LowerCase == <<"a", "b", "c", "d", "e", "f", "g", "h", "i", "j", "k", "l",
               "m", "n", "o", "p", "q", "r", "s", "t", "u", "v", "w", "x",
               "y", "z">>
UpperCase == <<"A", "B", "C", "D", "E", "F", "G", "H", "I", "J", "K", "L",
               "M", "N", "O", "P", "Q", "R", "S", "T", "U", "V", "W", "X",
               "Y", "Z">>

\* Mutant of Upper: the signal is compared as it was written.
UpperAsWritten(w) == w

\* str.upper(): every lower-case letter becomes its capital, every other
\* character stays.
Upper(w) ==
    [i \in 1..Len(w) |->
        IF \E k \in 1..Len(LowerCase) : LowerCase[k] = w[i]
        THEN UpperCase[CHOOSE k \in 1..Len(LowerCase) : LowerCase[k] = w[i]]
        ELSE w[i]]

\* str.lower(), to write the inputs.
Lower(w) ==
    [i \in 1..Len(w) |->
        IF \E k \in 1..Len(UpperCase) : UpperCase[k] = w[i]
        THEN LowerCase[CHOOSE k \in 1..Len(UpperCase) : UpperCase[k] = w[i]]
        ELSE w[i]]

\* str.capitalize(), to write the inputs.
Capitalized(w) == [i \in 1..Len(w) |-> IF i = 1 THEN w[i] ELSE Lower(w)[i]]

DANGER == <<"D", "A", "N", "G", "E", "R">>
WARNING == <<"W", "A", "R", "N", "I", "N", "G">>
SAFE == <<"S", "A", "F", "E">>
OVERBOUGHT == <<"O", "V", "E", "R", "B", "O", "U", "G", "H", "T">>
WATCH == <<"W", "A", "T", "C", "H">>
OBSERVED == <<"O", "B", "S", "E", "R", "V", "E", "D">>
LIMIT_UP == <<"L", "I", "M", "I", "T", "_", "U", "P">>
LIMIT_DOWN == <<"L", "I", "M", "I", "T", "_", "D", "O", "W", "N">>
HOLD == <<"H", "O", "L", "D">>
NOT_AVAILABLE == <<"N", "/", "A">>
LOCKED_DANGER == <<"L", "O", "C", "K", "E", "D", "_">> \o DANGER
\* A signal the function does not know.
BUY == <<"B", "U", "Y">>

\* Line 28: the signals that are NEUTRAL whatever the change.
AlwaysNeutral ==
    {WATCH, OBSERVED, LIMIT_UP, LIMIT_DOWN, HOLD, NOT_AVAILABLE,
     LOCKED_DANGER}

\* evaluate_signal (lines 25-59).
EvaluateSignal(signal, next_day_pct) ==
    LET sig == Upper(signal)
    IN  IF sig \in AlwaysNeutral THEN "NEUTRAL"
        ELSE IF sig = DANGER
        THEN IF next_day_pct < -50 THEN "HIT"
             ELSE IF next_day_pct > 100 THEN "MISS"
             ELSE "NEUTRAL"
        ELSE IF sig = WARNING
        THEN IF next_day_pct <= 0 THEN "HIT"
             ELSE IF next_day_pct > 100 THEN "MISS"
             ELSE "NEUTRAL"
        ELSE IF sig = SAFE
        THEN IF next_day_pct > -100 THEN "HIT"
             ELSE IF next_day_pct < -200 THEN "MISS"
             ELSE "NEUTRAL"
        ELSE IF sig = OVERBOUGHT
        THEN IF next_day_pct < -50 THEN "HIT"
             ELSE IF next_day_pct > 100 THEN "MISS"
             ELSE "NEUTRAL"
        ELSE "NEUTRAL"

\* The signals handed to evaluate_signal: every word in capitals, in
\* lower case and capitalized.
Spellings(w) == {w, Lower(w), Capitalized(w)}
Words == AlwaysNeutral \cup {DANGER, WARNING, SAFE, OVERBOUGHT, BUY}
SignalInputs == UNION {Spellings(w) : w \in Words}

\* The changes handed to it: the bounds of the bands and values on both
\* sides of each.
NextDayPcts == {-250, -200, -150, -100, -75, -50, -25, 0, 50, 100, 150}

\* One call of evaluate_signal.
Evaluate ==
    /\ ev.pc = "called"
    /\ ev' = [ev EXCEPT !.pc = "returned",
                        !.result = EvaluateSignal(ev.signal, ev.next_day_pct)]
    /\ UNCHANGED <<collector0, collectv, signalv, roll, calc>>

InitEvaluate ==
    /\ FreshCollector
    /\ spc = "idle" /\ raws = <<>> /\ processed = <<>> /\ holdings = <<>>
    /\ rules = <<>> /\ results = <<>>
    /\ roll = Idle
    /\ calc = Idle
    /\ \E signal \in SignalInputs, p \in NextDayPcts :
          ev = [pc |-> "called", signal |-> signal, next_day_pct |-> p,
                result |-> "-"]

NextEvaluate == Evaluate

SpecEvaluate == InitEvaluate /\ [][NextEvaluate]_vars

(***************************************************************************)
(* signal_tracker.calculate_rolling_stats (lines 112-196) on the records   *)
(* that SentinelDB.get_records_range returns.  A date is a day number; a   *)
(* rate is in hundredths; the confidence key for a missing confidence is   *)
(* written "unknown".                                                      *)
(***************************************************************************)
MaxRecords == 3        \* records handed to calculate_rolling_stats
MaxDate == 3           \* days on which records were saved
Days == 7              \* the default of the argument days

\* Mutant of Round2: the rate is cut, not rounded.
Round2Down(h, k) == (100 * h) \div k

\* round(h / k, 2), in hundredths: the nearest hundredth, the even one when
\* h / k is half-way between two (such a quotient is a multiple of 1/8 for
\* k < 40, which a float holds exactly).
Round2(h, k) ==
    LET q == (100 * h) \div k
        rem == (100 * h) % k
    IN  IF 2 * rem < k THEN q
        ELSE IF 2 * rem > k THEN q + 1
        ELSE IF q % 2 = 0 THEN q ELSE q + 1

\* sorted(records, key=lambda r: r['date']) (line 130): ascending by date,
\* records of one date staying in the order they came in.
RECURSIVE SortedByDate(_)
SortedByDate(recs) ==
    IF recs = <<>> THEN <<>>
    ELSE LET front == SortedByDate(SubSeq(recs, 1, Len(recs) - 1))
             r == recs[Len(recs)]
             n == Cardinality({i \in 1..Len(front) : front[i].date <= r.date})
         IN  SubSeq(front, 1, n) \o <<r>> \o SubSeq(front, n + 1, Len(front))

\* Lines 78-81: today_map, as the positions of the stocks of a code and
\* the change of the last of them: a later stock of the same code replaces
\* an earlier one.
TodayAt(stocks, code) == {i \in 1..Len(stocks) : stocks[i].code = code}
TodayMap(stocks, code) ==
    LET at == TodayAt(stocks, code)
    IN  stocks[CHOOSE i \in at : \A j \in at : j <= i].pct_change

\* evaluate_yesterday (lines 66-105): one evaluation per action whose code
\* is among the stocks of the next record.
RECURSIVE EvaluateYesterday(_, _)
EvaluateYesterday(actions, stocks) ==
    IF actions = <<>> THEN <<>>
    ELSE LET action == Head(actions)
             signal == Upper(action.signal)
             today_change == TodayMap(stocks, action.code)
             rest == EvaluateYesterday(Tail(actions), stocks)
         IN  IF TodayAt(stocks, action.code) = {} THEN rest
             ELSE <<[code |-> action.code,
                     yesterday_signal |-> signal,
                     confidence |-> action.confidence,
                     today_change |-> today_change,
                     result |-> EvaluateSignal(signal, today_change)]>>
                  \o rest

\* Lines 138-148: the pair (i, i + 1) of the sorted records is evaluated.
Evaluated(sorted, i) ==
    /\ sorted[i].actions # <<>>
    /\ sorted[i + 1].stocks # <<>>

\* Lines 134-151: all_evals, from pair i on.
RECURSIVE AllEvals(_, _)
AllEvals(sorted, i) ==
    IF i >= Len(sorted) THEN <<>>
    ELSE (IF Evaluated(sorted, i)
          THEN EvaluateYesterday(sorted[i].actions, sorted[i + 1].stocks)
          ELSE <<>>)
         \o AllEvals(sorted, i + 1)

\* History: the dates of the pairs that were evaluated, from pair i on.
RECURSIVE PairsOf(_, _)
PairsOf(sorted, i) ==
    IF i >= Len(sorted) THEN <<>>
    ELSE (IF Evaluated(sorted, i)
          THEN <<[day |-> sorted[i].date, next_day |-> sorted[i + 1].date]>>
          ELSE <<>>)
         \o PairsOf(sorted, i + 1)

\* Line 154: the evaluations that are not NEUTRAL.
IsScored(e) == e.result # "NEUTRAL"
Scored(evals) == SelectSeq(evals, IsScored)

\* Line 160.
Hits(scored) == Cardinality({i \in 1..Len(scored) : scored[i].result = "HIT"})

\* Line 166: e.get('confidence', ...) or the key for "unknown".
ConfKey(e) == IF e.confidence = "" THEN "unknown" ELSE e.confidence

\* Mutant of Bump: the evaluation that opens a key is not counted.
BumpOpensEmpty(acc, k, hit) ==
    IF k \notin DOMAIN acc
    THEN acc @@ (k :> [total |-> 0, hits |-> 0])
    ELSE [acc EXCEPT ![k] = [total |-> @.total + 1,
                             hits |-> @.hits + (IF hit THEN 1 ELSE 0)]]

\* Lines 167-171 and 180-184: one evaluation is counted under key k.
Bump(acc, k, hit) ==
    LET base == IF k \in DOMAIN acc THEN acc
                ELSE acc @@ (k :> [total |-> 0, hits |-> 0])
    IN  [base EXCEPT ![k] = [total |-> @.total + 1,
                             hits |-> @.hits + (IF hit THEN 1 ELSE 0)]]

\* Lines 164-171 and 177-184: the first n evaluations counted by key.
RECURSIVE Tally(_, _, _)
Tally(keys, scored, n) ==
    IF n = 0 THEN <<>>
    ELSE Bump(Tally(keys, scored, n - 1), keys[n], scored[n].result = "HIT")

\* Lines 173-174 and 186-187: the rate of every key.
WithRates(by) ==
    [k \in DOMAIN by |->
        [total |-> by[k].total, hits |-> by[k].hits,
         rate |-> IF by[k].total > 0 THEN Round2(by[k].hits, by[k].total)
                  ELSE 0]]

\* _empty_stats (lines 219-227).
EmptyStats ==
    [period_days |-> Days, total |-> 0, hits |-> 0, hit_rate |-> 0,
     by_confidence |-> <<>>, by_signal |-> <<>>]

\* calculate_rolling_stats (lines 126-196).
CalculateRollingStatsOf(records) ==
    IF Len(records) < 2 THEN EmptyStats
    ELSE LET scored == Scored(AllEvals(SortedByDate(records), 1))
             n == Len(scored)
         IN  IF scored = <<>> THEN EmptyStats
             ELSE [period_days |-> Days,
                   total |-> n,
                   hits |-> Hits(scored),
                   hit_rate |-> IF n > 0 THEN Round2(Hits(scored), n) ELSE 0,
                   by_confidence |->
                       WithRates(Tally([i \in 1..n |-> ConfKey(scored[i])],
                                       scored, n)),
                   by_signal |->
                       WithRates(Tally([i \in 1..n |->
                                           scored[i].yesterday_signal],
                                       scored, n))]

\* One call of calculate_rolling_stats.
CalculateRollingStats ==
    /\ roll.pc = "called"
    /\ roll' = [pc |-> "returned",
                records |-> roll.records,
                pairs |-> IF Len(roll.records) < 2 THEN <<>>
                          ELSE PairsOf(SortedByDate(roll.records), 1),
                evals |-> IF Len(roll.records) < 2 THEN <<>>
                          ELSE AllEvals(SortedByDate(roll.records), 1),
                stats |-> CalculateRollingStatsOf(roll.records)]
    /\ UNCHANGED <<collector0, collectv, signalv, ev, calc>>

\* ai_result['actions'] of a record: the signals of its day.
Action(code, signal, confidence) ==
    [code |-> code, signal |-> signal, confidence |-> confidence]
ActionLists ==
    {<<>>,
     <<Action("A", DANGER, "high")>>,
     <<Action("A", DANGER, "high"), Action("B", Lower(SAFE), "")>>,
     <<Action("A", WATCH, ""), Action("B", DANGER, "")>>}

\* raw_data['stocks'] of a record: the changes of its day.
Stock(code, pct_change) == [code |-> code, pct_change |-> pct_change]
StockLists ==
    {<<>>,
     <<Stock("A", -100)>>,
     <<Stock("A", 200), Stock("B", 0)>>,
     <<Stock("A", -100), Stock("B", -300)>>}

\* What get_records_range can return (database.py lines 156-175): rows in
\* descending order of date; save_record (lines 50-84) inserts one row per
\* run, so one date can have several rows.
StoredRecords ==
    [date : 1..MaxDate, actions : ActionLists, stocks : StockLists]
RecordLists(n) ==
    {recs \in [1..n -> StoredRecords] :
        \A i \in 1..(n - 1) : recs[i].date >= recs[i + 1].date}

InitRolling ==
    /\ FreshCollector
    /\ spc = "idle" /\ raws = <<>> /\ processed = <<>> /\ holdings = <<>>
    /\ rules = <<>> /\ results = <<>>
    /\ ev = Idle
    /\ calc = Idle
    /\ \E n \in 0..MaxRecords : \E recs \in RecordLists(n) :
          roll = [pc |-> "called", records |-> recs]

NextRolling == CalculateRollingStats

SpecRolling == InitRolling /\ [][NextRolling]_vars

(***************************************************************************)
(* SpecStitch: the stitching of calculate_indicators (lines 463-511 and    *)
(* 536-578) on a stock that has a price and a history with a close column. *)
(* The history has a close column, with or without a date column and a     *)
(* volume column, and no open, high or low column, so that these three     *)
(* fall back on the close column (lines 543-547) and on the live price     *)
(* (lines 559-565).  A price is in hundredths, bias_pct in units of        *)
(* 0.0001.                                                                 *)
(***************************************************************************)
MaxBars == 3           \* rows of the history
ma_window == 3         \* risk_management.ma_window (20 when not configured)

\* The date column of the history: "date" is a column named date or its
\* Chinese name, holding dates; "unparsable" is such a column that
\* pd.to_datetime or the comparison rejects; "none" is no such column (the
\* frames of AkshareSource.fetch_prices name it Date).
DateCols == {"date", "unparsable", "none"}

\* Lines 474-488: history_df_filtered.
Filtered(history, date_col) ==
    IF date_col = "date"
    THEN LET Before(bar) == bar.date < Today
         IN  SelectSeq(history, Before)
    ELSE IF date_col = "unparsable" THEN history
    ELSE IF history = <<>> THEN history
    ELSE SubSeq(history, 1, Len(history) - 1)

\* Series.tail(n).
TailOf(q, n) == IF Len(q) <= n THEN q ELSE SubSeq(q, Len(q) - n + 1, Len(q))

\* A row of a series fed to an indicator: a bar of the history, the live
\* value, or a zero.
BarRow(bar, value) == [kind |-> "bar", date |-> bar.date, value |-> value]
LiveRow(value) == [kind |-> "live", date |-> Today, value |-> value]
ZeroRow == [kind |-> "zero", date |-> Today, value |-> 0]

\* Lines 499-500 and 558-565: a column of the filtered history followed by
\* the live value.
Stitched(filtered, column, live) ==
    [i \in 1..Len(filtered) |-> BarRow(filtered[i], filtered[i][column])]
        \o <<LiveRow(live)>>

\* Lines 569-578: full_vols.
FullVols(filtered, vol_col, volume) ==
    IF vol_col /\ Len(filtered) >= 3
    THEN Stitched(filtered, "volume", volume)
    ELSE [i \in 1..(Len(filtered) + 1) |-> ZeroRow]

RECURSIVE SumOf(_)
SumOf(q) == IF q = <<>> THEN 0 ELSE Head(q) + SumOf(Tail(q))

\* round(a / b, digits) for b > 0, as the integer nearest to a / b (the
\* even one half-way).
RoundDiv(a, b) ==
    LET mag == IF a < 0 THEN -a ELSE a
        q == mag \div b
        rem == mag % b
        up == IF 2 * rem < b THEN q
              ELSE IF 2 * rem > b THEN q + 1
              ELSE IF q % 2 = 0 THEN q ELSE q + 1
    IN  IF a < 0 THEN -up ELSE up

\* Lines 493-496: combined_closes.
CombinedCloses(filtered, current_price) ==
    LET closes == [i \in 1..Len(filtered) |-> filtered[i].close]
    IN  TailOf(closes, ma_window - 1) \o <<current_price>>

\* Lines 503-507: the points of realtime_ma20.
MaPoints(combined) ==
    IF Len(combined) < ma_window THEN combined
    ELSE TailOf(combined, ma_window)

\* Lines 463-511, 558-578 and 625-626.
StitchOf(history, date_col, vol_col, current_price, volume) ==
    LET filtered == Filtered(history, date_col)
        points == MaPoints(CombinedCloses(filtered, current_price))
        total == SumOf(points)
        n == Len(points)
    IN  [full_closes |-> Stitched(filtered, "close", current_price),
         full_opens |-> Stitched(filtered, "close", current_price),
         full_highs |-> Stitched(filtered, "close", current_price),
         full_lows |-> Stitched(filtered, "close", current_price),
         full_vols |-> FullVols(filtered, vol_col, volume),
         ma20 |-> RoundDiv(total, n),
         bias_pct |-> RoundDiv(10000 * (current_price * n - total), total)]

\* calculate_indicators on the stock of calc.
Stitch ==
    /\ calc.pc = "called"
    /\ calc' = [calc EXCEPT
                  !.pc = "returned",
                  !.fed = StitchOf(calc.history, calc.date_col, calc.vol_col,
                                   calc.current_price, calc.volume)]
    /\ UNCHANGED <<collector0, collectv, signalv, ev, roll>>

\* The histories: up to MaxBars daily bars in ascending order of date, the
\* last of them possibly today's unfinished bar.
BarDates == (Today - MaxBars)..Today
Closes == {1000, 1200}
Volume == 5
Bars == [date : BarDates, close : Closes, volume : {Volume}]
HistoryFrames ==
    UNION {{h \in [1..n -> Bars] :
               \A i \in 1..(n - 1) : h[i].date < h[i + 1].date} :
           n \in 1..MaxBars}

InitStitch ==
    /\ FreshCollector
    /\ spc = "idle" /\ raws = <<>> /\ processed = <<>> /\ holdings = <<>>
    /\ rules = <<>> /\ results = <<>>
    /\ ev = Idle
    /\ roll = Idle
    /\ \E h \in HistoryFrames, dc \in DateCols, vc \in BOOLEAN,
          price \in Closes :
          calc = [pc |-> "called", history |-> h, date_col |-> dc,
                  vol_col |-> vc, current_price |-> price,
                  volume |-> Volume, fed |-> <<>>]

NextStitch == Stitch

SpecStitch == InitStitch /\ [][NextStitch]_vars

(***************************************************************************)
(* The claims.                                                             *)
(***************************************************************************)
Last(q) == q[Len(q)]
NotValid == {"skipped", "failed", "invalid"}

\* C1: _fetch_with_fallback visits the sources strictly in priority-list
\* order, passing over none; every source visited before the last one was
\* skipped, failed or gave an invalid result, so the loop stops at the first
\* source that yields a valid result, and the value returned is that
\* source's result.
C1_PriorityOrderFirstValid ==
    \A tk \in Tasks :
        /\ Len(calls[tk]) <= NumSources
        /\ \A i \in 1..Len(calls[tk]) : calls[tk][i].src = Sources[i]
        /\ \A i \in 1..(Len(calls[tk]) - 1) : calls[tk][i].out \in NotValid
        /\ (pc[tk] = "done" /\ ret[tk] # RetNone) =>
              /\ calls[tk] # <<>>
              /\ Last(calls[tk]).out = "valid"
              /\ ret[tk].src = Last(calls[tk]).src
              /\ ret[tk].kind \in Kinds /\ IsValid(ret[tk].kind)

\* C1 witness: A failed, B succeeded, B's result is returned, C not visited.
C1_Witness ==
    \E tk \in Tasks :
        /\ pc[tk] = "done"
        /\ calls[tk] = <<[src |-> Sources[1], out |-> "failed"],
                         [src |-> Sources[2], out |-> "valid"]>>
        /\ ret[tk] = [src |-> Sources[2], kind |-> "Data"]

\* C2: whatever the sources do (exception, timeout, None, empty DataFrame,
\* skipped by an open breaker) no exception leaves _fetch_with_fallback, and
\* an invocation in which no source yields a valid result returns None.
C2_NeverRaises ==
    \A tk \in Tasks :
        /\ pc[tk] # "raised"
        /\ (pc[tk] = "done" /\ \A i \in 1..Len(calls[tk]) : calls[tk][i].out # "valid")
              => ret[tk] = RetNone

\* C2 witness: one source skipped, one failed, one invalid; None is returned.
C2_Witness ==
    \E tk \in Tasks :
        /\ pc[tk] = "done"
        /\ ret[tk] = RetNone
        /\ {calls[tk][i].out : i \in 1..Len(calls[tk])} = NotValid

\* C3: three failures recorded for a source with no success in between open
\* its breaker; after one or two such failures it is still closed.
C3_ThreeFailuresOpen ==
    \A s \in SourceNames :
        /\ consec[s] >= 3 => cb[s].is_open
        /\ consec[s] \in {1, 2} => ~cb[s].is_open

\* C3 witness: the third failure in a row has been recorded.
C3_Witness == \E s \in SourceNames : consec[s] = 3 /\ cb[s].is_open

\* C4: every step that records a success for a source (the step that leaves
\* the await with a valid result) leaves failure_count = 0 and is_open =
\* FALSE for that source, whatever the breaker was before.
C4_SuccessResets ==
    [][\A tk \in Tasks :
          (pc[tk] = "await" /\ pc'[tk] = "done" /\ ret'[tk] # RetNone) =>
              /\ cb'[Src(tk)].failure_count = 0
              /\ ~cb'[Src(tk)].is_open]_vars

\* C4 witness: a success has been recorded on a breaker that was open (the
\* call had been let through before the breaker opened).
C4_Witness ==
    \E tk \in Tasks :
        /\ pc[tk] = "done"
        /\ ret[tk] # RetNone
        /\ pre[tk].class = "open"

\* C5: in the half-open state only one probe is let through: no two fetch
\* paths are at the same time in a call of the same source that the
\* skip-check let through with the breaker half-open.
C5_SingleProbe ==
    \A tk1, tk2 \in Tasks :
        (/\ tk1 # tk2
         /\ pc[tk1] = "await" /\ pc[tk2] = "await"
         /\ idx[tk1] = idx[tk2]
         /\ admit[tk1] = "half-open")
        => admit[tk2] # "half-open"

\* C6: no call is made on a source whose breaker is open with less than
\* RECOVERY_TIMEOUT elapsed since its last failure (the loop goes on to the
\* next source), and the skip-check writes nothing: a source is passed over
\* only in that case and its breaker is left as it was.
C6_OpenSkips ==
    /\ [](\A tk \in Tasks : pc[tk] = "await" => admit[tk] # "open")
    /\ [][\A tk \in Tasks : \A i \in 1..Len(calls'[tk]) :
            (/\ calls'[tk] # calls[tk]
             /\ pc[tk] = "await" => i > Len(calls[tk])
             /\ calls'[tk][i].out = "skipped")
            => LET s == calls'[tk][i].src
               IN  /\ cb'[s] = cb[s]
                   /\ cb[s].is_open
                   /\ now - cb[s].last_failure_time < RECOVERY_TIMEOUT
                   /\ idx'[tk] > i]_vars

\* C6 witness: the first source has been skipped, its breaker being open
\* and inside its window, and the call is on the second source.
C6_Witness ==
    \E tk \in Tasks :
        /\ pc[tk] = "await"
        /\ calls[tk] = <<[src |-> Sources[1], out |-> "skipped"],
                         [src |-> Sources[2], out |-> "pending"]>>
        /\ cb[Sources[1]].is_open
        /\ now - cb[Sources[1]].last_failure_time < RECOVERY_TIMEOUT

\* C7: the worker thread calls a source at most 3 times for one call of
\* _run_blocking, and the step in which the call fails definitively (retries
\* exhausted after the third attempt, or timeout after any number of them)
\* adds exactly 1 to the failure_count of that source and takes the loop to
\* a later source or to its end.
C7_OneFailurePerSource ==
    /\ [](\A tk \in Tasks :
             att[tk] <= 3 /\ (fut[tk] = "Exception" => att[tk] = 3))
    /\ [][\A tk \in Tasks :
            (pc[tk] = "await" /\ fut[tk] \in {"Exception", "running"}
                /\ calls'[tk] # calls[tk]) =>
               /\ cb'[Src(tk)].failure_count = cb[Src(tk)].failure_count + 1
               /\ idx'[tk] > idx[tk]
               /\ pc'[tk] \in {"await", "done"}
               /\ pc'[tk] = "done" => ret'[tk] = RetNone]_vars

\* C7 witness: the first invocation has failed on the first source, which
\* has one failure, and the call is on the second source.
C7_Witness ==
    \E tk \in Tasks :
        /\ invocations = 1
        /\ pc[tk] = "await" /\ idx[tk] = 2
        /\ calls[tk][1] = [src |-> Sources[1], out |-> "failed"]
        /\ cb[Sources[1]].failure_count = 1

\* C8: an empty result (empty DataFrame, empty string, empty list) makes the
\* loop go on like an error: no invocation returns an empty result while a
\* later source, one that the skip-check lets through at that moment, would
\* have returned a non-empty one.
C8_EmptyFallsThrough ==
    [][\A tk \in Tasks :
          (/\ pc[tk] = "await" /\ pc'[tk] = "done"
           /\ ret'[tk].kind \in {"EmptyDF", "EmptyStr"})
          => ~\E j \in (idx[tk] + 1)..NumSources :
                 /\ can[Sources[j]] = {"Data"}
                 /\ ~ShouldSkip(cb'[Sources[j]], now)]_vars

\* C9: no breaker write is lost: under every interleaving of the fetch
\* paths, the failure_count of a source is the number of failures recorded
\* for it since the last recorded success.
C9_NoLostWrite ==
    \A s \in SourceNames : cb[s].failure_count = consec[s]

\* C9 witness: all the fetch paths have failed on the first source in their
\* running invocation, one of them after another write had changed the count
\* it saw when its call was submitted, and the count is at least their
\* number.
C9_Witness ==
    /\ \A tk \in Tasks :
          /\ pc[tk] = "await" /\ idx[tk] = 2
          /\ calls[tk][1] = [src |-> Sources[1], out |-> "failed"]
    /\ \E tk \in Tasks : pre[tk].raced
    /\ cb[Sources[1]].failure_count >= NumTasks

\* C10 (as claimed): the timeout is per attempt: a retried attempt has a
\* window of its own, so wait_for never gives up on an attempt that has been
\* running for less than the timeout.
C10_FreshWindowPerAttempt ==
    [][\A tk \in Tasks :
          (fut[tk] = "running" /\ fut'[tk] = "TimeoutError"
              /\ phase[tk] = "calling")
          => now - since[tk] >= DEFAULT_TIMEOUT]_vars

\* C10 (as amended): the timeout is per call of _run_blocking: one window
\* starts when the call is awaited and covers the wait for a thread, all the
\* attempts and the backoff sleeps between them.  The coroutine never waits
\* longer than the timeout, and when wait_for gives up, exactly the timeout
\* has passed since the call was awaited, so an attempt that began d seconds
\* into the window is given up after timeout - d seconds.
C10_OneWindowPerCall ==
    /\ [](\A tk \in Tasks :
             (pc[tk] = "await" /\ fut[tk] = "running")
                => now - started[tk] <= DEFAULT_TIMEOUT)
    /\ [][\A tk \in Tasks :
            (fut[tk] = "running" /\ fut'[tk] = "TimeoutError")
               => now - started[tk] = DEFAULT_TIMEOUT]_vars

\* C10 witness: wait_for has just given up during the third attempt, which
\* had been running for less than the timeout.
C10_Witness ==
    \E tk \in Tasks :
        /\ fut[tk] = "TimeoutError"
        /\ now - started[tk] = DEFAULT_TIMEOUT
        /\ phase[tk] = "calling" /\ att[tk] = 3
        /\ now - since[tk] < DEFAULT_TIMEOUT

\* C11: collect_all does not raise and returns its five entries whatever
\* the branches do: every branch has run to its end, a global branch that
\* ended in an exception is replaced by its default and the others keep
\* their value, and stocks lists, in portfolio order, exactly the
\* instruments whose branch did not fail.
C11_PartialFailuresKept ==
    cpc = "returned" =>
        /\ out # NoOut
        /\ \A g \in 1..NumGlobals :
              /\ gl[g] \in {"value", "raised"}
              /\ gl[g] = "raised" => out[Globals[g]] = "default"
              /\ gl[g] = "value" => out[Globals[g]] = "value"
        /\ \A k \in 1..portfolio : st[k].at \in {"ok", "error"}
        /\ \A k \in 1..portfolio :
              st[k].at = "ok" <=> \E i \in 1..Len(out.stocks) : out.stocks[i] = k
        /\ \A i, j \in 1..Len(out.stocks) :
              i < j => out.stocks[i] < out.stocks[j]

\* C11 witness: a global branch has raised, the branch of the first
\* instrument has failed, the second instrument is returned.
C11_Witness ==
    /\ cpc = "returned"
    /\ portfolio = 2
    /\ gl[4] = "raised" /\ gl[1] = "value"
    /\ st[1].at = "error" /\ st[2].at = "ok"
    /\ out.stocks = <<2>>
    /\ out.macro_news = "default" /\ out.market_breadth = "value"

\* C12: the global and the per-instrument fetches run under one overall
\* gather: while a global fetch is in flight, the per-instrument fetches
\* have been handed to the event loop too, none of them waits for a global
\* fetch to end.
C12_OneOverallGather ==
    (\E g \in 1..NumGlobals : gl[g] = "running")
        => \A k \in 1..portfolio : st[k].at # "created"

TheStock == processed[1]
TheRecord == results[1]

\* The stock of SpecSignals is in the holdings with today, or with the day
\* before.
BoughtToday ==
    TheStock.code \in DOMAIN holdings /\ holdings[TheStock.code] = Today
BoughtBefore ==
    TheStock.code \in DOMAIN holdings /\ holdings[TheStock.code] = Yesterday

\* The threshold of the stock of SpecSignals, read off its name and code.
BoardThreshold ==
    IF TheStock.name \in {<<"*", "S", "T", "A">>, <<"s", "t", "A">>} THEN 45
    ELSE IF TheStock.code \in {<<"3", "0", "0", "7">>, <<"3", "0", "1", "2">>,
                               <<"6", "8", "8", "9">>} THEN 195
    ELSE 95

\* The stock of SpecSignals is past the checks of MA20 and of the limits.
Tiered ==
    /\ TheStock.ma20 # 0
    /\ TheStock.pct_change < BoardThreshold
    /\ TheStock.pct_change > -BoardThreshold

\* The rules that match the stock of SpecSignals, by position.
Matching ==
    {i \in 1..Len(rules) :
        RuleMatches(rules[i], TheRecord.base, Flags(TheStock))}

\* C14 (as claimed): past the limit check, with MA20 # 0 and no matching
\* rule, the signal follows the tiers (-5%, -3%] and (-3%, -1%]: DANGER
\* below -5% or in (-5%, -3%] on high volume, WARNING in (-5%, -3%] else,
\* WATCH in (-3%, -1%], OBSERVED otherwise; above MA20, OVERBOUGHT over +5%
\* and SAFE else.
C14_TiersClosedRight ==
    (spc = "done" /\ Tiered /\ Matching = {}) =>
        LET b == TheStock.bias_pct
            high == TheStock.volume_ratio > 150
            sig == TheRecord.signal
        IN  IF TheStock.current_price > TheStock.ma20
            THEN sig = (IF b > 500 THEN "OVERBOUGHT" ELSE "SAFE")
            ELSE /\ (b < -500 \/ (b > -500 /\ b <= -300 /\ high))
                        <=> sig = "DANGER"
                 /\ (b > -500 /\ b <= -300 /\ ~high) <=> sig = "WARNING"
                 /\ (b > -300 /\ b <= -100) <=> sig = "WATCH"
                 /\ (b = -500 \/ b > -100) <=> sig = "OBSERVED"

\* C14 (as amended): the tiers are closed on the left: DANGER below -5% or
\* in [-5%, -3%) on high volume, WARNING in [-5%, -3%) else, WATCH in
\* [-3%, -1%), OBSERVED from -1% on; and for an instrument bought today
\* DANGER is shown as LOCKED_DANGER.
C14_TiersClosedLeft ==
    (spc = "done" /\ Tiered /\ Matching = {}) =>
        LET b == TheStock.bias_pct
            high == TheStock.volume_ratio > 150
            sig == TheRecord.signal
            danger == IF BoughtToday THEN "LOCKED_DANGER" ELSE "DANGER"
        IN  IF TheStock.current_price > TheStock.ma20
            THEN sig = (IF b > 500 THEN "OVERBOUGHT" ELSE "SAFE")
            ELSE /\ (b < -500 \/ (b >= -500 /\ b < -300 /\ high))
                        <=> sig = danger
                 /\ (b >= -500 /\ b < -300 /\ ~high) <=> sig = "WARNING"
                 /\ (b >= -300 /\ b < -100) <=> sig = "WATCH"
                 /\ b >= -100 <=> sig = "OBSERVED"

\* C14 witness: a bias of exactly -5% on low volume has given WARNING.
C14_Witness ==
    /\ spc = "done" /\ Tiered /\ Matching = {}
    /\ TheStock.bias_pct = -500 /\ TheStock.volume_ratio = 80
    /\ TheRecord.signal = "WARNING"

\* C15 (as claimed): a change at or over the threshold of the board gives
\* LIMIT_UP, one at or under its opposite gives LIMIT_DOWN, whatever the
\* rest of the stock, MA20 included.
C15_LimitWhateverMa20 ==
    spc = "done" =>
        /\ TheStock.pct_change >= BoardThreshold
              => TheRecord.signal = "LIMIT_UP"
        /\ TheStock.pct_change <= -BoardThreshold
              => TheRecord.signal = "LIMIT_DOWN"

\* C15 (as amended): the check of MA20 comes first: a stock with MA20 = 0
\* gets N/A whatever its change.  For every stock with MA20 # 0 the limit
\* check decides before anything else: LIMIT_UP exactly when the change is
\* at or over the threshold, LIMIT_DOWN exactly when it is at or under its
\* opposite (4.5 when the name contains ST or st, else 19.5 for the code
\* prefixes 300, 301 and 688, else 9.5), whatever the price, bias, volume
\* ratio, indicators, rules and holdings.
C15_LimitAfterMa20 ==
    spc = "done" =>
        /\ TheStock.ma20 = 0 => TheRecord.signal = "N/A"
        /\ TheStock.ma20 # 0 =>
              /\ TheStock.pct_change >= BoardThreshold
                    <=> TheRecord.signal = "LIMIT_UP"
              /\ TheStock.pct_change <= -BoardThreshold
                    <=> TheRecord.signal = "LIMIT_DOWN"

\* C15 witness: an ST stock bought today, deep under MA20 on bearish
\* indicators, is LIMIT_DOWN at -4.5%.
C15_Witness ==
    /\ spc = "done"
    /\ TheStock.ma20 # 0 /\ TheStock.pct_change = -45
    /\ TheStock.name = <<"s", "t", "A">>
    /\ TheStock.bias_pct = -600 /\ TheStock.ind = Bearish
    /\ BoughtToday /\ rules # <<>>
    /\ TheRecord.signal = "LIMIT_DOWN"

\* C16: the rule applied is the first of the list that matches the base
\* signal and the flags: the signal and the confidence are those of that
\* rule (where the rule has them) and of no later rule; with no matching
\* rule the base signal and the default confidence are kept.
C16_FirstMatchWins ==
    (spc = "done" /\ Tiered) =>
        LET resolved == IF TheRecord.signal = "LOCKED_DANGER" THEN "DANGER"
                        ELSE TheRecord.signal
            default == DefaultConfidence(TheRecord.base, Flags(TheStock))
        IN  IF Matching = {}
            THEN resolved = TheRecord.base /\ TheRecord.confidence = default
            ELSE LET m == CHOOSE i \in Matching : \A j \in Matching : i <= j
                 IN  /\ resolved = (IF rules[m].result = ""
                                    THEN TheRecord.base ELSE rules[m].result)
                     /\ TheRecord.confidence =
                           (IF rules[m].confidence = ""
                            THEN default ELSE rules[m].confidence)

\* C16 witness: two rules match a DANGER; the first one has set WARNING, the
\* second one would have set DANGER with the high confidence.
C16_Witness ==
    /\ spc = "done" /\ Tiered
    /\ rules = <<RuleDowngrade, RuleConfirm>>
    /\ Matching = {1, 2}
    /\ TheRecord.base = "DANGER"
    /\ TheRecord.signal = "WARNING"

\* C17: for a stock that has come to the rules: bought today with DANGER
\* as the signal after the rules, it gets LOCKED_DANGER, tradeable False and
\* keeps its confidence; bought on an earlier day, it keeps its signal and
\* gets tradeable True.
C17_T1Lock ==
    (spc = "done" /\ Tiered) =>
        LET flags == Flags(TheStock)
            m == FirstMatch(rules, TheRecord.base, flags, 1)
            resolved == IF m = 0 \/ rules[m].result = "" THEN TheRecord.base
                        ELSE rules[m].result
            confidence == IF m = 0 \/ rules[m].confidence = ""
                          THEN DefaultConfidence(TheRecord.base, flags)
                          ELSE rules[m].confidence
        IN  /\ (BoughtToday /\ resolved = "DANGER") =>
                  /\ TheRecord.signal = "LOCKED_DANGER"
                  /\ TheRecord.tradeable = "False"
                  /\ TheRecord.confidence = confidence
            /\ BoughtBefore =>
                  /\ TheRecord.signal = resolved
                  /\ TheRecord.tradeable = "True"

\* C17 witness: a stock bought today whose DANGER comes from the tiers and
\* is confirmed by a rule is LOCKED_DANGER with the confidence of the rule.
C17_Witness ==
    /\ spc = "done" /\ Tiered /\ BoughtToday
    /\ rules = <<RuleConfirm, RuleDowngrade>> /\ 1 \in Matching
    /\ TheRecord.signal = "LOCKED_DANGER"
    /\ TheRecord.tradeable = "False"
    /\ TheRecord.confidence = "high"

\* C18: every stock bought today is returned with tradeable False, whatever
\* its signal.
C18_BoughtTodayNotTradeable ==
    (spc = "done" /\ BoughtToday) => TheRecord.tradeable = "False"

\* C19: a stock whose indicators cannot be calculated (no price, no or
\* empty history, no close column, an error in the calculation) does not
\* abort the cycle: generate_signals returns one record per stock, N/A for
\* that stock.
C19_FailedStockIsNA ==
    spc \in {"done", "raised"} =>
        /\ spc = "done"
        /\ Len(results) = Len(raws)
        /\ \A i \in 1..Len(results) :
              (raws[i].current_price = 0 \/ raws[i].history # "ok")
                 => results[i].signal = "N/A"

\* C20: generate_signals returns one record per stock handed to it, in the
\* same order, each with a signal of the ten, a confidence of the three and
\* a tradeable flag.
C20_OneCompleteRecordEach ==
    spc \in {"done", "raised"} =>
        /\ spc = "done"
        /\ Len(results) = Len(processed)
        /\ \A i \in 1..Len(results) :
              /\ results[i].code = processed[i].code
              /\ results[i].signal \in
                    {"SAFE", "OBSERVED", "WATCH", "WARNING", "DANGER",
                     "OVERBOUGHT", "LIMIT_UP", "LIMIT_DOWN", "LOCKED_DANGER",
                     "N/A"}
              /\ results[i].confidence \in {"low", "mid", "high"}
              /\ results[i].tradeable \in {"True", "False"}

(***************************************************************************)
(* Claims on signal_tracker.                                               *)
(***************************************************************************)
\* C21: evaluate_signal, whatever the case of the signal: DANGER and
\* OVERBOUGHT are HIT iff p < -0.5 and MISS iff p > 1.0; WARNING is HIT iff
\* p <= 0 and MISS iff p > 1.0; SAFE is HIT iff p > -1.0 and MISS iff
\* p < -2.0; everything else is NEUTRAL, and so is every other signal for
\* every p.
C21_EvaluateSignalTable ==
    ev.pc = "returned" =>
        LET p == ev.next_day_pct
            r == ev.result
            is(w) == ev.signal \in Spellings(w)
        IN  /\ r \in {"HIT", "MISS", "NEUTRAL"}
            /\ (is(DANGER) \/ is(OVERBOUGHT)) =>
                  /\ r = "HIT" <=> p < -50
                  /\ r = "MISS" <=> p > 100
            /\ is(WARNING) =>
                  /\ r = "HIT" <=> p <= 0
                  /\ r = "MISS" <=> p > 100
            /\ is(SAFE) =>
                  /\ r = "HIT" <=> p > -100
                  /\ r = "MISS" <=> p < -200
            /\ ~(is(DANGER) \/ is(OVERBOUGHT) \/ is(WARNING) \/ is(SAFE))
                  => r = "NEUTRAL"

\* C21 witness: "danger" in lower case, followed by -0.75%, has been
\* evaluated as a HIT.
C21_Witness ==
    /\ ev.pc = "returned"
    /\ ev.signal = Lower(DANGER)
    /\ ev.next_day_pct = -75
    /\ ev.result = "HIT"

\* The scorable evaluations of the call and the hits among them, counted
\* on the evaluations the call has made.
ScorableK ==
    Cardinality({i \in 1..Len(roll.evals) : roll.evals[i].result # "NEUTRAL"})
ScorableH ==
    Cardinality({i \in 1..Len(roll.evals) : roll.evals[i].result = "HIT"})

\* The sum of a field over the keys S of a by_... dictionary.
RECURSIVE SumOver(_, _, _)
SumOver(by, field, S) ==
    IF S = {} THEN 0
    ELSE LET k == CHOOSE x \in S : TRUE
         IN  by[k][field] + SumOver(by, field, S \ {k})

\* C22: every pair that calculate_rolling_stats evaluates has its second
\* record dated strictly later than its first.
C22_NextRecordIsLater ==
    roll.pc = "returned" =>
        \A i \in 1..Len(roll.pairs) :
            roll.pairs[i].next_day > roll.pairs[i].day

\* C23 (as claimed): with K > 0 scorable evaluations of which H are HIT,
\* total = K, hits = H and hit_rate is H / K exactly.
C23_RateExact ==
    (roll.pc = "returned" /\ ScorableK > 0) =>
        /\ roll.stats.total = ScorableK
        /\ roll.stats.hits = ScorableH
        /\ roll.stats.hit_rate * ScorableK = 100 * ScorableH

\* C23 (as amended): total = K, hits = H and hit_rate is H / K rounded to
\* two decimals: a multiple of 0.01 at most 0.005 away from H / K.
C23_RateRounded ==
    (roll.pc = "returned" /\ ScorableK > 0) =>
        /\ roll.stats.total = ScorableK
        /\ roll.stats.hits = ScorableH
        /\ 2 * (100 * ScorableH - roll.stats.hit_rate * ScorableK)
              <= ScorableK
        /\ 2 * (roll.stats.hit_rate * ScorableK - 100 * ScorableH)
              <= ScorableK

\* C23 witness: three scorable evaluations with two hits have given 0.67.
C23_Witness ==
    /\ roll.pc = "returned"
    /\ Len(roll.records) > 1
    /\ ScorableK = 3 /\ ScorableH = 2
    /\ roll.stats.hit_rate = 67

\* C24: by_signal and by_confidence each partition the scorable
\* evaluations: their totals sum to total and their hits to hits; an
\* evaluation without a confidence is counted under "unknown".
C24_Partitions ==
    (roll.pc = "returned" /\ ScorableK > 0) =>
        LET rs == roll.stats
            noconf == {i \in 1..Len(roll.evals) :
                          /\ roll.evals[i].result # "NEUTRAL"
                          /\ roll.evals[i].confidence = ""}
        IN  /\ rs.total = ScorableK
            /\ rs.hits = ScorableH
            /\ SumOver(rs.by_signal, "total", DOMAIN rs.by_signal) = rs.total
            /\ SumOver(rs.by_signal, "hits", DOMAIN rs.by_signal) = rs.hits
            /\ SumOver(rs.by_confidence, "total", DOMAIN rs.by_confidence)
                  = rs.total
            /\ SumOver(rs.by_confidence, "hits", DOMAIN rs.by_confidence)
                  = rs.hits
            /\ "" \notin DOMAIN rs.by_confidence
            /\ noconf # {} =>
                  /\ "unknown" \in DOMAIN rs.by_confidence
                  /\ rs.by_confidence["unknown"].total = Cardinality(noconf)

\* C24 witness: four scorable evaluations over two signals and two
\* confidences, one of them the missing one.
C24_Witness ==
    /\ roll.pc = "returned"
    /\ roll.stats.total = 4
    /\ Cardinality(DOMAIN roll.stats.by_signal) = 2
    /\ DOMAIN roll.stats.by_confidence = {"high", "unknown"}

(***************************************************************************)
(* Claims on the stitching of calculate_indicators.                        *)
(***************************************************************************)
\* The bars of the history handed to calculate_indicators that are dated
\* before today, in order.
PastBars ==
    LET Before(bar) == bar.date < Today
    IN  SelectSeq(calc.history, Before)

\* C25: the closes, opens, highs and lows fed to the indicators are the
\* bars of the history dated before today, in order, followed by one live
\* value; the volumes have the same length and no bar dated today or later
\* (of the volumes the claim asks more; this is what is checked of them).
C25_SameStitchedSeries ==
    calc.pc = "returned" =>
        LET n == Len(PastBars)
            IsStitched(series) ==
                /\ Len(series) = n + 1
                /\ \A i \in 1..n :
                      /\ series[i].kind = "bar"
                      /\ series[i].date = PastBars[i].date
                /\ series[n + 1].kind = "live"
        IN  /\ IsStitched(calc.fed.full_closes)
            /\ IsStitched(calc.fed.full_opens)
            /\ IsStitched(calc.fed.full_highs)
            /\ IsStitched(calc.fed.full_lows)
            /\ Len(calc.fed.full_vols) = n + 1
            /\ \A i \in 1..Len(calc.fed.full_vols) :
                  calc.fed.full_vols[i].kind = "bar"
                     => calc.fed.full_vols[i].date < Today

\* C26: ma20 is the mean of the last ma_window - 1 closes dated before
\* today and the live price, of all of them when there are fewer; when all
\* these and the live price are one constant, ma20 is that constant and
\* bias_pct is 0.
C26_Ma20OfPastCloses ==
    calc.pc = "returned" =>
        LET closes == [i \in 1..Len(PastBars) |-> PastBars[i].close]
            points == TailOf(closes, ma_window - 1) \o <<calc.current_price>>
        IN  /\ calc.fed.ma20 = RoundDiv(SumOf(points), Len(points))
            /\ (\A i \in 1..Len(points) : points[i] = calc.current_price)
                  => /\ calc.fed.ma20 = calc.current_price
                     /\ calc.fed.bias_pct = 0

(***************************************************************************)
(* Claims on the breaker writes of _fetch_with_fallback.                   *)
(***************************************************************************)
\* C27: whatever successes and failures have been recorded, the breaker of
\* every source is open exactly when its failure_count is at least
\* FAILURE_THRESHOLD, and the count is never negative.
C27_OpenIffThreshold ==
    \A s \in SourceNames :
        /\ cb[s].is_open <=> cb[s].failure_count >= FAILURE_THRESHOLD
        /\ cb[s].failure_count >= 0

\* C27 witness: a success has been recorded for a source whose breaker was
\* open (the probe after the recovery time), and has closed it.
C27_Witness ==
    \E tk \in Tasks :
        /\ pc[tk] = "done"
        /\ ret[tk].kind = "Data"
        /\ pre[tk].class = "half-open"
        /\ ~cb[ret[tk].src].is_open
        /\ cb[ret[tk].src].failure_count = 0

\* C28: the step that finds None or an empty DataFrame writes to no
\* breaker (no count, no flag, no time changes) and takes the loop to a
\* later source or to its end.
C28_EmptyAnswerWritesNothing ==
    [][\A tk \in Tasks :
          (/\ pc[tk] = "await"
           /\ fut[tk] \in {"None", "EmptyDF"}
           /\ calls'[tk] # calls[tk])
          => /\ cb' = cb
             /\ calls'[tk][Len(calls[tk])] =
                   [src |-> Src(tk), out |-> "invalid"]
             /\ idx'[tk] > idx[tk]]_vars

\* C28 witness: the first source, with one failure counted, has answered
\* None or an empty DataFrame; the count is still there and the call is on
\* a later source.
C28_Witness ==
    \E tk \in Tasks :
        /\ pc[tk] = "await"
        /\ idx[tk] > 1
        /\ calls[tk][1] = [src |-> Sources[1], out |-> "invalid"]
        /\ cb[Sources[1]].failure_count = 1

\* C29: in one invocation every source is called at most once and so gets
\* at most one write, a success or a failure; a success is written only
\* for the source whose result the invocation returns; a breaker changes
\* only in the step that ends the awaited call of its source; and the end
\* of a call that wait_for had given up changes no breaker and nothing of
\* the coroutine.
C29_OneWritePerSource ==
    /\ [](\A tk \in Tasks : \A i, j \in 1..Len(calls[tk]) :
             i < j => /\ calls[tk][i].src # calls[tk][j].src
                      /\ calls[tk][i].out # "valid")
    /\ [](\A tk \in Tasks : \A i \in 1..Len(calls[tk]) :
             calls[tk][i].out = "valid"
                => /\ pc[tk] = "done"
                   /\ ret[tk].src = calls[tk][i].src)
    /\ [][\A s \in SourceNames :
            cb'[s] # cb[s]
               => \E tk \in Tasks :
                     LET n == Len(calls[tk])
                     IN  /\ pc[tk] = "await"
                         /\ calls[tk][n] = [src |-> s, out |-> "pending"]
                         /\ calls'[tk][n].src = s
                         /\ calls'[tk][n].out \in {"failed", "valid"}]_vars
    /\ [][\A tk \in Tasks : \A s \in SourceNames :
            (late[tk][s] = "running" /\ late'[tk][s] = "ended")
               => cb' = cb /\ ret' = ret /\ pc' = pc]_vars

\* C29 witness: the call of the first source timed out and was recorded as
\* one failure, the invocation returned the result of the second source,
\* and the given-up call has come to its end since.
C29_Witness ==
    \E tk \in Tasks :
        /\ invocations = 1
        /\ pc[tk] = "done"
        /\ calls[tk] = <<[src |-> Sources[1], out |-> "failed"],
                         [src |-> Sources[2], out |-> "valid"]>>
        /\ ret[tk].src = Sources[2]
        /\ late[tk][Sources[1]] = "ended"
        /\ cb[Sources[1]].failure_count = 1

\* C30: a failure recorded while the breaker is open leaves it open and
\* sets last_failure_time to the time of that failure, so that the source
\* is skipped from then on for RECOVERY_TIMEOUT; and a breaker that was
\* open is closed only by a step that records a success for its source.
C30_FailureRestartsWindow ==
    [][\A s \in SourceNames :
          /\ (cb[s].is_open /\ consec'[s] = consec[s] + 1)
                => /\ cb'[s].is_open
                   /\ cb'[s].last_failure_time = now
                   /\ now' = now
                   /\ \A t \in now..(now + RECOVERY_TIMEOUT - 1) :
                         ShouldSkip(cb'[s], t)
          /\ (cb[s].is_open /\ ~cb'[s].is_open)
                => \E tk \in Tasks :
                      /\ pc[tk] = "await" /\ pc'[tk] = "done"
                      /\ ret'[tk].src = s
                      /\ ret'[tk].kind \in Kinds]_vars

\* C30 witness: a failure has been recorded on a breaker that was open and
\* inside its window (the call had been let through before it opened), at
\* a time later than the failure that opened it.
C30_Witness ==
    \E tk \in Tasks :
        /\ pre[tk].class = "open"
        /\ calls[tk][1] = [src |-> Sources[1], out |-> "failed"]
        /\ cb[Sources[1]].is_open
        /\ cb[Sources[1]].last_failure_time = now
        /\ now > 0

\* C30 second witness: the probe of a half-open breaker has failed.
C30_ProbeFailed ==
    \E tk \in Tasks :
        /\ pre[tk].class = "half-open"
        /\ calls[tk][1] = [src |-> Sources[1], out |-> "failed"]
        /\ cb[Sources[1]].is_open
        /\ cb[Sources[1]].last_failure_time = now

TypeOK ==
    /\ \A s \in SourceNames : cb[s].failure_count \in 0..(MaxInvocations + FAILURE_THRESHOLD)
    /\ \A tk \in Tasks : pc[tk] \in {"idle", "await", "done", "raised"}

====
